---------------------------- MODULE Spec2Model ----------------------------
(***************************************************************************)
(* State-machine model of the SaltyRTC signaling client                    *)
(* (src/saltyrtc/signaling.ts): CombinedSequence, Responder and the         *)
(* Signaling engine with its server handshake and peer handshake.          *)
(*                                                                         *)
(* Cryptography is symbolic: a key pair is named by an identity, a box     *)
(* records the two key identities it was made with, and decryption         *)
(* succeeds exactly when the receiver holds the matching pair.             *)
(***************************************************************************)
EXTENDS Integers, Sequences, FiniteSets, TLC

(***************************************************************************)
(* Bounds of the model.                                                    *)
(***************************************************************************)
\* sendToken() calls per connection
MaxTokens == 2
\* largest responder address of the model (0xff in the protocol)
MaxResponderId == 4
\* connect() calls on one engine where connections follow each other
MaxConnects == 2

(***************************************************************************)
(* Program constants.                                                      *)
(***************************************************************************)
SALTYRTC_ADDR_UNKNOWN == 0
SALTYRTC_ADDR_SERVER == 0
SALTYRTC_ADDR_INITIATOR == 1
\* first responder address (0x02)
RESPONDER_ADDR_MIN == 2
\* OVERFLOW_MAX = 0x100000
OVERFLOW_MAX == 1048576
\* A 32 bit sequence number is kept as <<high half, low half>>, each half
\* below 2^16, so that SEQUENCE_NUMBER_MAX = 0x100000000 is <<HalfWord, 0>>.
HalfWord == 65536
\* last responder address (0xff)
RESPONDER_ADDR_MAX == 255

Engines == {"I", "R"}
RoleOf(e) == IF e = "I" THEN "initiator" ELSE "responder"

ResponderIds == RESPONDER_ADDR_MIN .. MaxResponderId
Addresses == 0 .. MaxResponderId

(***************************************************************************)
(* Symbolic values.                                                        *)
(***************************************************************************)
Cookies == {"c1", "c2"}
\* iterations of the loop that generates our cookie
MaxDraws == 3
NoCookie == "none"

\* Key identities <<owner, serial>>.  Serial 0 is the permanent key of the
\* owner, serial n > 0 the n-th KeyStore the owner created.  "S" is the
\* server, "X" a party outside the handshake, "T" the shared auth token and
\* "TX" some other token.
NoKey == <<"none", 0>>
PermanentKey(e) == <<e, 0>>
ServerPermanentKey == <<"S", 0>>
ForeignKey == <<"X", 0>>
SharedToken == <<"T", 0>>
ForeignToken == <<"TX", 0>>

\* The values randomUint32() may return in the model: zero, and the value
\* two below the largest, from which the second next() wraps around.
WrapStart == <<HalfWord - 1, HalfWord - 2>>
SeqStarts == {<<0, 0>>, WrapStart}

(***************************************************************************)
(* CombinedSequence                                                        *)
(***************************************************************************)
NewCombinedSequence(r) == [sequenceNumber |-> r, overflow |-> 0]

\* sequenceNumber + 1 on the two halves
SeqPlusOne(n) == IF n[2] + 1 = HalfWord THEN <<n[1] + 1, 0>> ELSE <<n[1], n[2] + 1>>

\* sequenceNumber + 1 >= SEQUENCE_NUMBER_MAX
SeqAtMax(n) == SeqPlusOne(n)[1] >= HalfWord

\* a next() that forgets to count the wrap in overflow
CsnNextNoCarry(c) ==
    IF SeqAtMax(c.sequenceNumber)
    THEN [csn    |-> [sequenceNumber |-> <<0, 0>>, overflow |-> c.overflow],
          value  |-> [sequenceNumber |-> <<0, 0>>, overflow |-> c.overflow],
          thrown |-> c.overflow >= OVERFLOW_MAX]
    ELSE [csn    |-> [sequenceNumber |-> SeqPlusOne(c.sequenceNumber), overflow |-> c.overflow],
          value  |-> [sequenceNumber |-> SeqPlusOne(c.sequenceNumber), overflow |-> c.overflow],
          thrown |-> FALSE]

\* next(): the object after the call, the returned pair, and whether it threw
CsnNext(c) ==
    IF SeqAtMax(c.sequenceNumber)
    THEN LET o == c.overflow + 1
         IN  [csn    |-> [sequenceNumber |-> <<0, 0>>, overflow |-> o],
              value  |-> [sequenceNumber |-> <<0, 0>>, overflow |-> o],
              thrown |-> o >= OVERFLOW_MAX]
    ELSE LET n == SeqPlusOne(c.sequenceNumber)
         IN  [csn    |-> [sequenceNumber |-> n, overflow |-> c.overflow],
              value  |-> [sequenceNumber |-> n, overflow |-> c.overflow],
              thrown |-> FALSE]

\* lexicographic order on (overflow, sequence)
CsnLess(a, b) ==
    \/ a.overflow < b.overflow
    \/ /\ a.overflow = b.overflow
       /\ \/ a.sequenceNumber[1] < b.sequenceNumber[1]
          \/ /\ a.sequenceNumber[1] = b.sequenceNumber[1]
             /\ a.sequenceNumber[2] < b.sequenceNumber[2]

(***************************************************************************)
(* Responder                                                               *)
(***************************************************************************)
NewResponder(id, ks, r) ==
    [id               |-> id,
     permanentKey     |-> NoKey,
     sessionKey       |-> NoKey,
     keyStore         |-> ks,
     state            |-> "new",
     combinedSequence |-> NewCombinedSequence(r)]

NoResponder == NewResponder(0, NoKey, <<0, 0>>)

\* `responders` before the first server-auth (null)
NullResponders == [i \in {0} |-> NoResponder]
EmptyResponders == [i \in {} |-> NoResponder]

(***************************************************************************)
(* Boxes and frames                                                        *)
(***************************************************************************)
PlainBox == [kind |-> "plain", a |-> NoKey, b |-> NoKey]
\* public-key box made with the secret key of `own` for the public key `other`
Box(own, other) == [kind |-> "box", a |-> own, b |-> other]
\* secret-key box made with `token`
SecretBox(token) == [kind |-> "secret", a |-> token, b |-> NoKey]

\* KeyStore.decrypt(box, otherKey): the shared key of (own, other) opens a
\* box made with (other, own) or with (own, other)
KeyStoreDecrypts(box, own, other) ==
    /\ box.kind = "box"
    /\ own # NoKey
    /\ other # NoKey
    /\ \/ box.a = other /\ box.b = own
       \/ box.a = own /\ box.b = other

\* AuthToken.decrypt(box)
AuthTokenDecrypts(box, token) == box.kind = "secret" /\ box.a = token

NoPayload ==
    [key |-> NoKey, your_cookie |-> NoCookie, id |-> 0, responders |-> {},
     initiator_connected |-> FALSE]

Message(type, payload) ==
    [type                |-> type,
     key                 |-> payload.key,
     your_cookie         |-> payload.your_cookie,
     id                  |-> payload.id,
     responders          |-> payload.responders,
     initiator_connected |-> payload.initiator_connected]

ZeroCsn == [sequenceNumber |-> <<0, 0>>, overflow |-> 0]

\* A frame on the wire: the 24 byte nonce, whether the frame is longer than
\* the nonce, the box around the payload and the payload.
Frame(cookie, src, dst, csn, long, box, msg) ==
    [cookie |-> cookie, source |-> src, destination |-> dst, csn |-> csn,
     long |-> long, box |-> box, message |-> msg]


(***************************************************************************)
(* State                                                                   *)
(***************************************************************************)
VARIABLES
    \* the Signaling instances, one record of fields per engine
    sig,
    \* the engines that were constructed
    active,
    \* the relay: per engine the frames it still has to deliver, how many of
    \* the engine's outbound frames it has handled per destination, and
    \* whether the engine has authenticated
    relay,
    \* a CombinedSequence on its own, with the outcome of every next() call
    sequence,
    \* a Chunkifier and an Unchunkifier on their own, each with the outcome of
    \* the calls made on it
    chunkifier,
    unchunkifier

vars == <<sig, active, relay, sequence, chunkifier, unchunkifier>>

\* the objects that are exercised apart from the engines
units == <<sequence, chunkifier, unchunkifier>>

\* the engines and their relay
engines == <<sig, active, relay>>

NullCookiePair == [ours |-> NoCookie, theirs |-> NoCookie]

EmptyLog == [a \in Addresses |-> <<>>]

\* A Signaling instance after its constructor.  `socks` holds the state of
\* every WebSocket the instance created and `ws` the index of the current
\* one (0 is null); `handler` is the message listener of the current
\* WebSocket.  `seed` is the value randomUint32() returns to this engine and
\* `keyCtr` counts the KeyStores it created;
\* `outcome` is how the last message handler was left.  `heard`, `sent` and
\* `notified` record, for the current
\* WebSocket, the inbound frames acted on (by source), the frames passed to
\* ws.send (by destination) and the callbacks made on the client.
NewSignaling(e, r) ==
    [role                      |-> RoleOf(e),
     state                     |-> "new",
     ws                        |-> 0,
     socks                     |-> <<>>,
     handler                   |-> "none",
     serverKey                 |-> NoKey,
     permanentKey              |-> PermanentKey(e),
     sessionKey                |-> NoKey,
     authToken                 |-> SharedToken,
     address                   |-> SALTYRTC_ADDR_UNKNOWN,
     cookiePair                |-> NullCookiePair,
     serverCombinedSequence    |-> NewCombinedSequence(r),
     responders                |-> NullResponders,
     responderOrder            |-> <<>>,
     responder                 |-> NoResponder,
     initiatorPermanentKey     |-> IF RoleOf(e) = "responder" THEN PermanentKey("I") ELSE NoKey,
     initiatorSessionKey       |-> NoKey,
     initiatorConnected        |-> "null",
     initiatorHandshakeState   |-> "null",
     initiatorCombinedSequence |-> NewCombinedSequence(r),
     keyCtr                    |-> 0,
     seed                      |-> r,
     outcome                   |-> "none",
     tokens                    |-> 0,
     heard                     |-> EmptyLog,
     sent                      |-> EmptyLog,
     notified                  |-> {}]

\* the n-th KeyStore an engine creates
FreshKey(s) == <<s.permanentKey[1], s.keyCtr + 1>>

(***************************************************************************)
(* Helpers of the Signaling class                                          *)
(***************************************************************************)
\* WebSocket.close(): an open or connecting socket starts closing
CloseSocket(socks, ws) ==
    IF ws # 0 /\ socks[ws] \in {"connecting", "open"}
    THEN [socks EXCEPT ![ws] = "closing"]
    ELSE socks

ResetConnection(s, r) ==
    [s EXCEPT !.state = "new",
              !.serverCombinedSequence = NewCombinedSequence(r),
              !.socks = CloseSocket(s.socks, s.ws),
              !.ws = 0]

InitWebsocket(s) ==
    [s EXCEPT !.socks = Append(s.socks, "connecting"),
              !.ws = Len(s.socks) + 1,
              !.handler = "init",
              !.state = "ws-connecting",
              !.tokens = 0,
              !.heard = EmptyLog,
              !.sent = EmptyLog,
              !.notified = {}]

\* validateNonce(nonce, destination, source); a parameter of -1 is undefined
ValidateNonce(f, destination, source) ==
    /\ destination # -1 => f.destination = destination
    /\ source # -1 => f.source = source

\* a choice that reads every sequence object without advancing it
PacketCsnReused(s, receiver) ==
    LET c == IF receiver = SALTYRTC_ADDR_SERVER THEN s.serverCombinedSequence
             ELSE IF receiver = SALTYRTC_ADDR_INITIATOR THEN s.initiatorCombinedSequence
             ELSE s.responders[receiver].combinedSequence
    IN  [csn |-> c, value |-> c, thrown |-> FALSE]

\* The sequence number buildPacket puts into the nonce, with the sequence
\* object after the choice.
PacketCsn(s, receiver) ==
    IF receiver = SALTYRTC_ADDR_SERVER
    THEN CsnNext(s.serverCombinedSequence)
    ELSE IF receiver = SALTYRTC_ADDR_INITIATOR
    THEN CsnNext(s.initiatorCombinedSequence)
    ELSE [csn    |-> s.responders[receiver].combinedSequence,
          value  |-> s.responders[receiver].combinedSequence,
          thrown |-> FALSE]

\* a key selection that never uses a session key
PacketBoxPermanent(s, type, receiver, encrypt) ==
    IF ~encrypt THEN PlainBox
    ELSE IF receiver = SALTYRTC_ADDR_SERVER
    THEN Box(s.permanentKey, s.serverKey)
    ELSE IF receiver = SALTYRTC_ADDR_INITIATOR
    THEN IF type = "token" THEN SecretBox(s.authToken)
         ELSE Box(s.permanentKey, s.initiatorPermanentKey)
    ELSE Box(s.permanentKey, s.responders[receiver].permanentKey)

\* The box buildPacket encrypts the message with.
PacketBox(s, type, receiver, encrypt) ==
    IF ~encrypt THEN PlainBox
    ELSE IF receiver = SALTYRTC_ADDR_SERVER
    THEN Box(s.permanentKey, s.serverKey)
    ELSE IF receiver = SALTYRTC_ADDR_INITIATOR
    THEN IF type = "token" THEN SecretBox(s.authToken)
         ELSE IF type = "key" THEN Box(s.permanentKey, s.initiatorPermanentKey)
         ELSE Box(s.sessionKey, s.initiatorSessionKey)
    ELSE IF type = "key"
    THEN Box(s.permanentKey, s.responders[receiver].permanentKey)
    ELSE Box(s.responders[receiver].keyStore, s.responders[receiver].sessionKey)

\* buildPacket followed by ws.send: the engine after the call.  next()
\* throws only once overflow reaches OVERFLOW_MAX, after 2^32 calls or more,
\* which no connection here comes near.
SendPacket(s, msg, receiver, encrypt) ==
    LET sel == PacketCsn(s, receiver)
        f   == Frame(s.cookiePair.ours, s.address, receiver, sel.value, TRUE,
                     PacketBox(s, msg.type, receiver, encrypt), msg)
        s1  == IF receiver = SALTYRTC_ADDR_SERVER
               THEN [s EXCEPT !.serverCombinedSequence = sel.csn]
               ELSE IF receiver = SALTYRTC_ADDR_INITIATOR
               THEN [s EXCEPT !.initiatorCombinedSequence = sel.csn]
               ELSE s
    IN  [s1 EXCEPT !.sent[receiver] = Append(@, f)]

\* a sendToken that moves the sub-state but sends nothing
SendTokenNever(s) ==
    IF s.role = "responder"
    THEN [s EXCEPT !.initiatorHandshakeState = "token-sent", !.tokens = @ + 1]
    ELSE [s EXCEPT !.tokens = @ + 1]

\* sendToken()
SendToken(s) ==
    LET msg == Message("token", [NoPayload EXCEPT !.key = s.permanentKey])
        s1  == IF s.role = "responder"
               THEN [s EXCEPT !.initiatorHandshakeState = "token-sent"]
               ELSE s
    IN  [SendPacket(s1, msg, SALTYRTC_ADDR_INITIATOR, TRUE) EXCEPT !.tokens = @ + 1]

\* msgpack.decode of the payload: only a payload that was not encrypted, or
\* was decrypted, is readable; anything else has no type field
Readable(f) == IF f.box.kind = "plain" THEN f.message ELSE Message("none", NoPayload)

(***************************************************************************)
(* Server handshake                                                        *)
(***************************************************************************)
\* a handler is left with `outcome`: "none" when it ran to its end,
\* otherwise the exception it threw or the reason it aborted or returned with
Leave(s, outcome) == [s EXCEPT !.outcome = outcome]

\* a frame the handler acted on is recorded under its source
Heard(s, f) == [s EXCEPT !.heard[f.source] = Append(@, f)]

\* The first failing check of serverHandshake on server-hello, or "none".
ServerHelloError(s, f) ==
    IF ~ ValidateNonce(f, s.address, -1) THEN "bad-nonce-destination"
    ELSE IF ~ ValidateNonce(f, -1, SALTYRTC_ADDR_SERVER) THEN "bad-nonce-source"
    ELSE IF Readable(f).type # "server-hello" THEN "bad-message-type"
    ELSE "none"

\* The values new Cookie() returns in the iterations of the do-while loop
\* of serverHandshake, for every number of iterations up to MaxDraws.
CookieDraws == UNION {[1 .. n -> Cookies] : n \in 1 .. MaxDraws}

\* a cookie generation that keeps the first draw
GenerateCookieOnce(draws, theirs) == Head(draws)

\* do { cookie = new Cookie() } while (cookie.equals(nonce.cookie))
RECURSIVE GenerateCookie(_, _)
GenerateCookie(draws, theirs) ==
    IF Head(draws) = theirs
    THEN GenerateCookie(Tail(draws), theirs)
    ELSE Head(draws)

\* The cookies the loop may end with: one for every run of draws in which
\* it ends, that is one that holds a cookie other than `theirs`.
FreshCookies(theirs) ==
    { GenerateCookie(d, theirs) :
        d \in {c \in CookieDraws : \E i \in DOMAIN c : c[i] # theirs} }

\* onInitServerHandshake up to its await: process server-hello with the
\* fresh cookie `cookie`, send client-hello (responder) and client-auth,
\* then wait for the next message event.  A throw rejects the promise of
\* the handler and nothing else happens.
OnInitServerHandshake(s, f, cookie) ==
    LET s0 == [s EXCEPT !.handler = "none", !.state = "server-handshake"]
        s1 == Heard([s0 EXCEPT !.serverKey = f.message.key,
                               !.cookiePair = [ours |-> cookie, theirs |-> f.cookie]], f)
        s2 == IF s1.role = "responder"
              THEN SendPacket(s1,
                       Message("client-hello", [NoPayload EXCEPT !.key = s1.permanentKey]),
                       SALTYRTC_ADDR_SERVER, FALSE)
              ELSE s1
        s3 == SendPacket(s2,
                  Message("client-auth", [NoPayload EXCEPT !.your_cookie = s2.cookiePair.theirs]),
                  SALTYRTC_ADDR_SERVER, TRUE)
    IN  IF ServerHelloError(s, f) # "none"
        THEN Leave(s0, ServerHelloError(s, f))
        ELSE Leave([s3 EXCEPT !.address = SALTYRTC_ADDR_INITIATOR, !.handler = "recv"], "none")

\* frame checks where the responder adopts any destination
ServerAuthFrameErrorAnyDestination(s, f) ==
    IF ~ f.long THEN "bad-message-length"
    ELSE IF ~ KeyStoreDecrypts(f.box, s.permanentKey, s.serverKey) THEN "decryption-failed"
    ELSE IF s.role = "initiator"
    THEN IF ~ ValidateNonce(f, SALTYRTC_ADDR_INITIATOR, -1) THEN "bad-nonce-destination"
         ELSE IF ~ ValidateNonce(f, -1, SALTYRTC_ADDR_SERVER) THEN "bad-nonce-source"
         ELSE "none"
    ELSE IF ~ ValidateNonce(f, -1, SALTYRTC_ADDR_SERVER) THEN "bad-nonce-source"
         ELSE "none"

\* The first failing check of serverHandshake on the frame before its
\* payload is decoded, or "none".
ServerAuthFrameError(s, f) ==
    IF ~ f.long THEN "bad-message-length"
    ELSE IF ~ KeyStoreDecrypts(f.box, s.permanentKey, s.serverKey) THEN "decryption-failed"
    ELSE IF s.role = "initiator"
    THEN IF ~ ValidateNonce(f, SALTYRTC_ADDR_INITIATOR, -1) THEN "bad-nonce-destination"
         ELSE IF ~ ValidateNonce(f, -1, SALTYRTC_ADDR_SERVER) THEN "bad-nonce-source"
         ELSE "none"
    ELSE IF ~ ValidateNonce(f, -1, SALTYRTC_ADDR_SERVER) THEN "bad-nonce-source"
         ELSE IF f.destination > RESPONDER_ADDR_MAX \/ f.destination < RESPONDER_ADDR_MIN
         THEN "bad-nonce-destination"
         ELSE "none"

\* the checks on the server-auth message without the one of your_cookie
ServerAuthMessageErrorNoCookie(s, f) ==
    IF f.message.type = "none" THEN "bad-message"
    ELSE IF f.message.type # "server-auth" THEN "bad-message-type"
    ELSE "none"

\* The first failing check on the decrypted server-auth message, or "none".
ServerAuthMessageError(s, f) ==
    IF f.message.type = "none" THEN "bad-message"
    ELSE IF f.message.type # "server-auth" THEN "bad-message-type"
    ELSE IF f.message.your_cookie # s.cookiePair.ours THEN "bad-cookie"
    ELSE "none"

\* responders.set(id, new Responder(id)) for the ids of a sequence, in order
RECURSIVE AddResponders(_, _, _)
AddResponders(s, ids, r) ==
    IF ids = <<>> THEN s
    ELSE LET id == Head(ids)
             s1 == IF id \in DOMAIN s.responders
                   THEN [s EXCEPT !.responders[id] = NewResponder(id, FreshKey(s), r),
                                  !.keyCtr = @ + 1]
                   ELSE [s EXCEPT !.responders =
                                      [i \in (DOMAIN s.responders) \cup {id} |->
                                          IF i = id THEN NewResponder(id, FreshKey(s), r)
                                          ELSE s.responders[i]],
                                  !.responderOrder = Append(@, id),
                                  !.keyCtr = @ + 1]
         IN  AddResponders(s1, Tail(ids), r)

\* the ids of a set in ascending order
RECURSIVE Ascending(_)
Ascending(S) ==
    IF S = {} THEN <<>>
    ELSE LET m == CHOOSE x \in S : \A y \in S : x <= y
         IN  <<m>> \o Ascending(S \ {m})

\* The rest of onInitServerHandshake, run when the awaited frame arrives:
\* process server-auth, enter the peer handshake and register its handler.
\* `r` is the start of the sequence numbers created here.
OnServerAuth(s, f, r) ==
    LET s0 == [s EXCEPT !.handler = "none"]
        \* the address is set before the message is decoded
        s1 == IF s0.role = "initiator"
              THEN [s0 EXCEPT !.address = SALTYRTC_ADDR_INITIATOR]
              ELSE [s0 EXCEPT !.address = f.destination]
        s2 == IF s1.role = "initiator"
              THEN AddResponders(
                       [s1 EXCEPT !.responders = EmptyResponders, !.responderOrder = <<>>],
                       Ascending(f.message.responders), r)
              ELSE [s1 EXCEPT !.initiatorConnected =
                                  IF f.message.initiator_connected THEN "true" ELSE "false"]
        s3 == Heard([s2 EXCEPT !.state = "peer-handshake"], f)
        s4 == IF s3.role = "responder"
              THEN LET s5 == [s3 EXCEPT !.initiatorHandshakeState = "new"]
                   IN  IF s5.initiatorConnected = "true" THEN SendToken(s5) ELSE s5
              ELSE s3
    IN  IF ServerAuthFrameError(s, f) # "none"
        THEN Leave(s0, ServerAuthFrameError(s, f))
        ELSE IF ServerAuthMessageError(s, f) # "none"
        THEN Leave(s1, ServerAuthMessageError(s, f))
        ELSE Leave([s4 EXCEPT !.handler = "peer"], "none")

(***************************************************************************)
(* Peer handshake                                                          *)
(***************************************************************************)
\* abort(): remove the peer handshake listener, reset the connection and
\* throw; `why` is what was logged before
Abort(s, r, why) ==
    Leave(ResetConnection([s EXCEPT !.handler = IF @ = "peer" THEN "none" ELSE @], r), why)

\* a server dispatch where every new-responder installs a new Responder
OnServerMessageResetting(s, f, r) ==
    IF ~ KeyStoreDecrypts(f.box, s.permanentKey, s.serverKey) THEN Leave(s, "decryption-failed")
    ELSE IF f.message.type = "none" THEN Leave(s, "bad-message")
    ELSE IF f.message.type = "new-responder"
    THEN IF s.responders = NullResponders THEN Leave(s, "type-error")
         ELSE Leave(Heard(AddResponders(s, <<f.message.id>>, r), f), "none")
    ELSE IF f.message.type = "new-initiator"
    THEN Leave(Heard(SendToken([s EXCEPT !.initiatorConnected = "true"]), f), "none")
    ELSE Leave(s, "none")

\* Frames of the server (source 0x00).  permanentKey.decrypt is called
\* directly: when it throws, the exception leaves the handler.
OnServerMessage(s, f, r) ==
    IF ~ KeyStoreDecrypts(f.box, s.permanentKey, s.serverKey) THEN Leave(s, "decryption-failed")
    ELSE IF f.message.type = "none" THEN Leave(s, "bad-message")
    ELSE IF f.message.type = "new-responder"
    THEN \* on the responder `responders` is null and has() throws
         IF s.responders = NullResponders THEN Leave(s, "type-error")
         ELSE IF f.message.id \notin DOMAIN s.responders
         THEN Leave(Heard(AddResponders(s, <<f.message.id>>, r), f), "none")
         ELSE Leave(s, "none")
    ELSE IF f.message.type = "new-initiator"
    THEN Leave(Heard(SendToken([s EXCEPT !.initiatorConnected = "true"]), f), "none")
    ELSE Leave(s, "none")

\* a key selection that never uses the session keys
InitiatorDecryptsPermanent(s, box) ==
    KeyStoreDecrypts(box, s.permanentKey, s.initiatorPermanentKey)

\* The keys the responder decrypts a frame of the initiator with.
InitiatorDecrypts(s, box) ==
    IF s.initiatorHandshakeState = "token-sent"
    THEN KeyStoreDecrypts(box, s.permanentKey, s.initiatorPermanentKey)
    ELSE KeyStoreDecrypts(box, s.sessionKey, s.initiatorSessionKey)

\* a key handling that sends auth right after key, before the auth of the
\* initiator has come
OnInitiatorKeyThenAuth(s, f) ==
    LET k1 == [s EXCEPT !.initiatorSessionKey = f.message.key,
                        !.sessionKey = FreshKey(s),
                        !.keyCtr = @ + 1]
        k2 == SendPacket(k1, Message("key", [NoPayload EXCEPT !.key = k1.sessionKey]),
                         SALTYRTC_ADDR_INITIATOR, TRUE)
        k3 == SendPacket(k2, Message("auth", [NoPayload EXCEPT !.your_cookie = f.cookie]),
                         SALTYRTC_ADDR_INITIATOR, TRUE)
    IN  Leave(Heard([k3 EXCEPT !.initiatorHandshakeState = "key-sent"], f), "none")

\* token-sent: store the session key of the initiator and reply with the
\* public key of a new session KeyStore
OnInitiatorKey(s, f) ==
    LET k1 == [s EXCEPT !.initiatorSessionKey = f.message.key,
                        !.sessionKey = FreshKey(s),
                        !.keyCtr = @ + 1]
        k2 == SendPacket(k1, Message("key", [NoPayload EXCEPT !.key = k1.sessionKey]),
                         SALTYRTC_ADDR_INITIATOR, TRUE)
    IN  Leave(Heard([k2 EXCEPT !.initiatorHandshakeState = "key-sent"], f), "none")

\* the handling of auth in key-sent without the check of your_cookie
OnInitiatorAuthUnchecked(s, f, r) ==
    LET a1 == [s EXCEPT !.handler = "message", !.initiatorHandshakeState = "auth-received"]
        a2 == SendPacket(a1, Message("auth", [NoPayload EXCEPT !.your_cookie = f.cookie]),
                         SALTYRTC_ADDR_INITIATOR, TRUE)
        a3 == Heard([a2 EXCEPT !.state = "open", !.notified = @ \cup {"connected"}], f)
    IN  IF f.cookie = s.cookiePair.ours THEN Abort(a1, r, "same-cookie")
        ELSE Leave(a3, "none")

\* key-sent: check the cookie, deregister the handshake, reply with auth
OnInitiatorAuth(s, f, r) ==
    LET a1 == [s EXCEPT !.handler = "message", !.initiatorHandshakeState = "auth-received"]
        a2 == SendPacket(a1, Message("auth", [NoPayload EXCEPT !.your_cookie = f.cookie]),
                         SALTYRTC_ADDR_INITIATOR, TRUE)
        a3 == Heard([a2 EXCEPT !.state = "open", !.notified = @ \cup {"connected"}], f)
    IN  IF f.message.your_cookie # s.cookiePair.ours THEN Abort(s, r, "bad-cookie")
        ELSE IF f.cookie = s.cookiePair.ours THEN Abort(a1, r, "same-cookie")
        ELSE Leave(a3, "none")

\* Frames of the initiator (source 0x01), handled by the responder.
OnInitiatorMessage(s, f, r) ==
    IF s.role # "responder" THEN Abort(s, r, "wrong-role")
    \* a null session keystore makes decrypt throw a TypeError, which the
    \* decrypt helper passes on without abort
    ELSE IF s.initiatorHandshakeState # "token-sent" /\ s.sessionKey = NoKey
    THEN Leave(s, "type-error")
    ELSE IF ~ InitiatorDecrypts(s, f.box) THEN Abort(s, r, "decryption-failed")
    ELSE IF f.message.type = "none" THEN Leave(s, "bad-message")
    ELSE IF s.initiatorHandshakeState = "token-sent"
    THEN IF f.message.type # "key" THEN Abort(s, r, "bad-message-type")
         ELSE OnInitiatorKey(s, f)
    ELSE IF s.initiatorHandshakeState = "key-sent"
    THEN IF f.message.type # "auth" THEN Abort(s, r, "bad-message-type")
         ELSE OnInitiatorAuth(s, f, r)
    ELSE Leave(s, "none")

\* a loop that stops after the first id: drop it and clear the map
DropFirstOnly(s, ids) ==
    IF ids = <<>> THEN s
    ELSE [SendPacket(s, Message("drop-responder", [NoPayload EXCEPT !.id = Head(ids)]),
                     SALTYRTC_ADDR_SERVER, TRUE)
             EXCEPT !.responders = EmptyResponders, !.responderOrder = <<>>]

\* send drop-responder for the ids in `ids`, in order, deleting each
RECURSIVE DropResponders(_, _)
DropResponders(s, ids) ==
    IF ids = <<>> THEN s
    ELSE LET id == Head(ids)
             s1 == SendPacket(s, Message("drop-responder", [NoPayload EXCEPT !.id = id]),
                              SALTYRTC_ADDR_SERVER, TRUE)
             s2 == [s1 EXCEPT !.responders = [i \in (DOMAIN s1.responders) \ {id} |-> s1.responders[i]],
                              !.responderOrder = SelectSeq(s1.responderOrder, LAMBDA i : i # id)]
         IN  DropResponders(s2, Tail(ids))

\* a key selection that never uses the session keys of the responder
ResponderDecryptsPermanent(s, responder, box) ==
    IF responder.state = "new"
    THEN AuthTokenDecrypts(box, s.authToken)
    ELSE KeyStoreDecrypts(box, s.permanentKey, responder.permanentKey)

\* The keys the initiator decrypts a frame of `responder` with.
ResponderDecrypts(s, responder, box) ==
    IF responder.state = "new"
    THEN AuthTokenDecrypts(box, s.authToken)
    ELSE IF responder.state = "token-received"
    THEN KeyStoreDecrypts(box, s.permanentKey, responder.permanentKey)
    ELSE KeyStoreDecrypts(box, responder.keyStore, responder.sessionKey)

\* The message type the initiator expects of a responder in `state`.
ExpectedOfResponder(state) ==
    IF state = "new" THEN "token"
    ELSE IF state = "token-received" THEN "key"
    ELSE "auth"

\* a token handling that keeps one handshake state for all responders
OnResponderTokenShared(s, f) ==
    LET id == f.source
        t1 == [s EXCEPT !.responders =
                            [i \in DOMAIN s.responders |->
                                IF i = id
                                THEN [s.responders[i] EXCEPT !.permanentKey = f.message.key,
                                                             !.state = "token-received"]
                                ELSE [s.responders[i] EXCEPT !.state = "token-received"]]]
    IN  Leave(Heard(SendPacket(t1, Message("key", [NoPayload EXCEPT
                                                      !.key = s.responders[id].keyStore]),
                               id, TRUE), f), "none")

\* new: store the permanent key of the responder, reply with key
OnResponderToken(s, f) ==
    LET id == f.source
        t1 == [s EXCEPT !.responders[id].permanentKey = f.message.key,
                        !.responders[id].state = "token-received"]
    IN  Leave(Heard(SendPacket(t1, Message("key", [NoPayload EXCEPT
                                                      !.key = s.responders[id].keyStore]),
                               id, TRUE), f), "none")

\* token-received: store the session key of the responder, reply with auth
OnResponderKey(s, f, r) ==
    LET id == f.source
        k1 == [s EXCEPT !.responders[id].sessionKey = f.message.key,
                        !.responders[id].state = "key-received"]
    IN  IF f.cookie = s.cookiePair.ours THEN Abort(k1, r, "same-cookie")
        ELSE Leave(Heard(SendPacket(k1, Message("auth", [NoPayload EXCEPT
                                                            !.your_cookie = f.cookie]),
                                    id, TRUE), f), "none")

\* key-received: check the cookie, elect the responder, drop all others
OnResponderAuth(s, f, r) ==
    LET id == f.source
        a1 == [s EXCEPT !.responder = s.responders[id],
                        !.responders = [i \in (DOMAIN s.responders) \ {id} |-> s.responders[i]],
                        !.responderOrder = SelectSeq(s.responderOrder, LAMBDA i : i # id),
                        !.sessionKey = s.responders[id].keyStore]
        a2 == DropResponders(a1, a1.responderOrder)
    IN  IF f.message.your_cookie # s.cookiePair.ours THEN Abort(s, r, "bad-cookie")
        ELSE Leave(Heard([a2 EXCEPT !.handler = "message", !.state = "open",
                                    !.notified = @ \cup {"connected"}], f), "none")

\* a dispatch that aborts on a frame of a responder that is not in the map
OnResponderMessageStrict(s, f, r) ==
    IF s.role # "initiator" THEN Abort(s, r, "wrong-role")
    ELSE IF f.source \notin DOMAIN s.responders THEN Abort(s, r, "unknown-responder")
    ELSE IF ~ ResponderDecrypts(s, s.responders[f.source], f.box)
    THEN Abort(s, r, "decryption-failed")
    ELSE IF f.message.type = "none" THEN Leave(s, "bad-message")
    ELSE IF f.message.type # ExpectedOfResponder(s.responders[f.source].state)
    THEN Abort(s, r, "bad-message-type")
    ELSE IF s.responders[f.source].state = "new" THEN OnResponderToken(s, f)
    ELSE IF s.responders[f.source].state = "token-received" THEN OnResponderKey(s, f, r)
    ELSE OnResponderAuth(s, f, r)

\* Frames of a responder (source 0x02..0xff), handled by the initiator.
OnResponderMessage(s, f, r) ==
    IF s.role # "initiator" THEN Abort(s, r, "wrong-role")
    ELSE IF f.source \notin DOMAIN s.responders THEN Leave(s, "unknown-responder")
    ELSE IF ~ ResponderDecrypts(s, s.responders[f.source], f.box)
    THEN Abort(s, r, "decryption-failed")
    ELSE IF f.message.type = "none" THEN Leave(s, "bad-message")
    ELSE IF f.message.type # ExpectedOfResponder(s.responders[f.source].state)
    THEN Abort(s, r, "bad-message-type")
    ELSE IF s.responders[f.source].state = "new" THEN OnResponderToken(s, f)
    ELSE IF s.responders[f.source].state = "token-received" THEN OnResponderKey(s, f, r)
    ELSE OnResponderAuth(s, f, r)

\* onPeerHandshakeMessage.  validateNonce throws past the handler without
\* abort.  A source byte is 0x00, 0x01 or a responder address, so the final
\* else branch of the dispatch is never taken.
OnPeerHandshakeMessage(s, f, r) ==
    IF ~ ValidateNonce(f, s.address, -1) THEN Leave(s, "bad-nonce-destination")
    ELSE IF f.source = SALTYRTC_ADDR_SERVER THEN OnServerMessage(s, f, r)
    ELSE IF f.source = SALTYRTC_ADDR_INITIATOR THEN OnInitiatorMessage(s, f, r)
    ELSE OnResponderMessage(s, f, r)

(***************************************************************************)
(* Frames an arbitrary network may hand to an engine: for every step of    *)
(* the handshakes the frame the step expects, and frames that differ from  *)
(* it in the nonce, the box or the payload.  Sequence numbers of inbound   *)
(* nonces are not looked at by the code (validateNonce leaves them as a    *)
(* TODO) and are zero here.                                                *)
(***************************************************************************)
\* a cookie of the peer that differs from ours
OtherCookie(s) == CHOOSE c \in Cookies : c # s.cookiePair.ours

\* an address that is not ours
OtherAddress(s) == IF s.address = 1 THEN 2 ELSE 1

ServerHelloMessage == Message("server-hello", [NoPayload EXCEPT !.key = ServerPermanentKey])

ServerHelloFrames(s) ==
    { Frame("c1", 0, s.address, ZeroCsn, TRUE, PlainBox, ServerHelloMessage),
      \* what a server sends to a client it has given no address yet
      Frame("c1", 0, SALTYRTC_ADDR_UNKNOWN, ZeroCsn, TRUE, PlainBox, ServerHelloMessage),
      Frame("c1", 1, s.address, ZeroCsn, TRUE, PlainBox, ServerHelloMessage),
           Frame("c1", 0, OtherAddress(s), ZeroCsn, TRUE, PlainBox, ServerHelloMessage),
           Frame("c1", 0, s.address, ZeroCsn, TRUE, PlainBox,
                 [ServerHelloMessage EXCEPT !.type = "server-auth"]),
           Frame("c1", 0, s.address, ZeroCsn, TRUE, Box(ServerPermanentKey, s.permanentKey),
                 ServerHelloMessage) }

\* the payloads of a valid server-auth for the role
ServerAuthMessages(s) ==
    IF s.role = "initiator"
    THEN { Message("server-auth", [NoPayload EXCEPT !.your_cookie = s.cookiePair.ours,
                                                    !.responders = rs]) :
             rs \in {{}, {2, 3}} }
    ELSE { Message("server-auth", [NoPayload EXCEPT !.your_cookie = s.cookiePair.ours,
                                                    !.initiator_connected = ic]) :
             ic \in BOOLEAN }

\* the destinations of a valid server-auth for the role
ServerAuthAddresses(s) == IF s.role = "initiator" THEN {1} ELSE {2, 3}

ServerAuthFrames(s) ==
    LET box == Box(s.serverKey, s.permanentKey)
        c   == s.cookiePair.theirs
        dst == CHOOSE d \in ServerAuthAddresses(s) : TRUE
        msg == CHOOSE m \in ServerAuthMessages(s) : TRUE
    IN  { Frame(c, 0, d, ZeroCsn, TRUE, box, m) :
            d \in ServerAuthAddresses(s), m \in ServerAuthMessages(s) }
        \cup { Frame(c, 0, dst, ZeroCsn, FALSE, box, msg),
               Frame(c, 0, dst, ZeroCsn, TRUE, Box(ForeignKey, s.permanentKey), msg),
               Frame(c, 0, dst, ZeroCsn, TRUE, PlainBox, msg),
               Frame(c, 1, dst, ZeroCsn, TRUE, box, msg),
               Frame(c, 0, IF s.role = "initiator" THEN 2 ELSE 1, ZeroCsn, TRUE, box, msg),
               Frame(c, 0, 0, ZeroCsn, TRUE, box, msg),
               Frame(c, 0, dst, ZeroCsn, TRUE, box, [msg EXCEPT !.type = "new-responder"]),
               Frame(c, 0, dst, ZeroCsn, TRUE, box, [msg EXCEPT !.type = "none"]),
               Frame(c, 0, dst, ZeroCsn, TRUE, box, [msg EXCEPT !.your_cookie = s.cookiePair.theirs]) }

\* The server announces responder addresses in increasing order: the ids
\* of a new-responder are the known ones and the next one.
AnnouncedIds(s) ==
    {id \in ResponderIds : \A j \in ResponderIds : j < id => j \in DOMAIN s.responders}

ServerFrames(s) ==
    { Frame(s.cookiePair.theirs, SALTYRTC_ADDR_SERVER, s.address, ZeroCsn, TRUE,
            Box(s.serverKey, s.permanentKey), Message(m[1], [NoPayload EXCEPT !.id = m[2]])) :
        m \in {<<"new-responder", id>> : id \in AnnouncedIds(s)}
              \cup {<<"new-initiator", 0>>, <<"none", 0>>, <<"server-auth", 0>>} }
    \cup { Frame(s.cookiePair.theirs, SALTYRTC_ADDR_SERVER, s.address, ZeroCsn, TRUE,
                 Box(ForeignKey, s.permanentKey), Message("new-initiator", NoPayload)) }

\* payloads of the frames of a peer with the given permanent and session key
PeerMessages(permanent, session) ==
    { Message("token", [NoPayload EXCEPT !.key = permanent]),
      Message("key", [NoPayload EXCEPT !.key = session]),
      Message("none", NoPayload) }
    \cup { Message("auth", [NoPayload EXCEPT !.your_cookie = c]) : c \in Cookies }

\* Frames of source `src` for the steps whose boxes are `good` (one box per
\* step, with the payload type the step expects): every payload in the box
\* of every step, the payload of the step that compares the cookie of the
\* nonce with ours (`echo`) in its box under our own cookie, and the token
\* and key payloads in each box of `bad`.
PeerFrames(s, src, good, echo, bad, msgs) ==
    { Frame(OtherCookie(s), src, s.address, ZeroCsn, TRUE, g[1], m) :
        g \in good, m \in msgs }
    \cup UNION { { Frame(s.cookiePair.ours, src, s.address, ZeroCsn, TRUE, g[1], m) :
                     m \in {n \in msgs : n.type = g[2] /\ n.type = echo} } : g \in good }
    \cup { Frame(OtherCookie(s), src, s.address, ZeroCsn, TRUE, b, m) :
             b \in bad, m \in {n \in msgs : n.type \in {"token", "key"}} }

InitiatorFrames(s) ==
    PeerFrames(s, SALTYRTC_ADDR_INITIATOR,
               { <<Box(s.initiatorPermanentKey, s.permanentKey), "key">>,
                 <<Box(<<"I", 1>>, s.sessionKey), "auth">> },
               "auth",
               { Box(ForeignKey, s.permanentKey), SecretBox(s.authToken) },
               PeerMessages(PermanentKey("I"), <<"I", 1>>))

ResponderFrames(s) ==
    UNION { PeerFrames(s, id,
                { <<SecretBox(SharedToken), "token">>,
                  <<Box(PermanentKey("R"), s.permanentKey), "key">> }
                \cup (IF id \in DOMAIN s.responders
                      THEN { <<Box(<<"R", 1>>, s.responders[id].keyStore), "auth">> }
                      ELSE {}),
                "key",
                { SecretBox(ForeignToken), Box(ForeignKey, s.permanentKey) },
                PeerMessages(PermanentKey("R"), <<"R", 1>>)) :
            id \in ResponderIds }

\* one frame of each kind of source, addressed to somebody else
MisaddressedFrames(s) ==
    { Frame(s.cookiePair.theirs, src, OtherAddress(s), ZeroCsn, TRUE,
            Box(s.serverKey, s.permanentKey), Message("new-initiator", NoPayload)) :
        src \in {0, 1, 2} }

PeerHandshakeFrames(s) ==
    ServerFrames(s) \cup MisaddressedFrames(s)
    \cup (IF s.role = "responder" THEN InitiatorFrames(s) ELSE ResponderFrames(s))
    \cup { Frame(OtherCookie(s), IF s.role = "responder" THEN 2 ELSE 1, s.address, ZeroCsn,
                 TRUE, Box(ForeignKey, s.permanentKey), Message("key", NoPayload)) }

(***************************************************************************)
(* Actions                                                                 *)
(***************************************************************************)
\* the current WebSocket delivers message events
Receiving(s) == s.ws # 0 /\ s.socks[s.ws] = "open"

\* connect(), called by the host on an engine that is not connected and has
\* created fewer than `limit` WebSockets
Connect(e, limit) ==
    /\ e \in active
    /\ Len(sig[e].socks) < limit
    /\ sig[e].state \in {"new", "closed"}
    /\ sig' = [sig EXCEPT ![e] = Leave(InitWebsocket(ResetConnection(sig[e], sig[e].seed)), "none")]

\* onOpen: the open event of the current WebSocket
OnOpen(e) ==
    /\ sig[e].ws # 0
    /\ sig[e].socks[sig[e].ws] = "connecting"
    /\ sig' = [sig EXCEPT ![e].socks[sig[e].ws] = "open", ![e].state = "server-handshake",
                          ![e].outcome = "none"]

\* onError: the error event of a WebSocket whose connection fails; its close
\* event follows
OnError(e) ==
    \E t \in DOMAIN sig[e].socks :
        /\ sig[e].socks[t] \in {"connecting", "open"}
        /\ sig' = [sig EXCEPT ![e].socks[t] = "failed",
                              ![e].notified = @ \cup {"error"},
                              ![e].outcome = "none"]

\* onClose: the close event of a WebSocket of the engine, after close(),
\* after a failure or when the server closes it
OnClose(e) ==
    \E t \in DOMAIN sig[e].socks :
        /\ sig[e].socks[t] # "closed"
        /\ sig' = [sig EXCEPT ![e].socks[t] = "closed",
                              ![e].state = "closed",
                              ![e].notified = @ \cup {"closed"},
                              ![e].outcome = "none"]

\* the first message event: onInitServerHandshake
ServerHelloEvent(e, f) ==
    /\ Receiving(sig[e])
    /\ sig[e].handler = "init"
    /\ \E cookie \in FreshCookies(f.cookie) :
          sig' = [sig EXCEPT ![e] = OnInitServerHandshake(sig[e], f, cookie)]

\* the awaited message event: the rest of onInitServerHandshake
ServerAuthEvent(e, f) ==
    /\ Receiving(sig[e])
    /\ sig[e].handler = "recv"
    /\ sig' = [sig EXCEPT ![e] = OnServerAuth(sig[e], f, sig[e].seed)]

\* a message event during the peer handshake: onPeerHandshakeMessage
PeerHandshakeEvent(e, f) ==
    /\ Receiving(sig[e])
    /\ sig[e].handler = "peer"
    /\ f.message.type = "new-initiator" => sig[e].tokens < MaxTokens
    /\ sig' = [sig EXCEPT ![e] = OnPeerHandshakeMessage(sig[e], f, sig[e].seed)]

\* a message event after the handshake: onMessage only logs
MessageEvent(e) ==
    /\ Receiving(sig[e])
    /\ sig[e].handler = "message"
    /\ sig' = sig

(***************************************************************************)
(* One engine, on its first connection, in an arbitrary network; its       *)
(* sequence numbers start where the second next() wraps around             *)
(***************************************************************************)
NoRelay ==
    [e \in Engines |-> [inbox |-> <<>>, handled |-> [a \in Addresses |-> 0], joined |-> FALSE]]

\* no CombinedSequence, Chunkifier or Unchunkifier apart from the engines
NoUnits ==
    /\ sequence = "none"
    /\ chunkifier = "none"
    /\ unchunkifier = "none"

Init ==
    /\ \E e \in Engines : active = {e}
    /\ sig = [e \in Engines |-> NewSignaling(e, WrapStart)]
    /\ relay = NoRelay
    /\ NoUnits

HostConnect(e) ==
    /\ Connect(e, 1)
    /\ UNCHANGED <<active, relay, units>>

SocketOpen(e) ==
    /\ OnOpen(e)
    /\ UNCHANGED <<active, relay, units>>

SocketError(e) ==
    /\ OnError(e)
    /\ UNCHANGED <<active, relay, units>>

SocketClose(e) ==
    /\ OnClose(e)
    /\ UNCHANGED <<active, relay, units>>

NetServerHello(e) ==
    /\ \E f \in ServerHelloFrames(sig[e]) : ServerHelloEvent(e, f)
    /\ UNCHANGED <<active, relay, units>>

NetServerAuth(e) ==
    /\ \E f \in ServerAuthFrames(sig[e]) : ServerAuthEvent(e, f)
    /\ UNCHANGED <<active, relay, units>>

NetPeerHandshake(e) ==
    /\ \E f \in PeerHandshakeFrames(sig[e]) : PeerHandshakeEvent(e, f)
    /\ UNCHANGED <<active, relay, units>>

NetMessage(e) ==
    /\ MessageEvent(e)
    /\ UNCHANGED <<active, relay, units>>

Next ==
    \/ \E e \in active : HostConnect(e)
    \/ \E e \in active : SocketOpen(e)
    \/ \E e \in active : SocketError(e)
    \/ \E e \in active : SocketClose(e)
    \/ \E e \in active : NetServerHello(e)
    \/ \E e \in active : NetServerAuth(e)
    \/ \E e \in active : NetPeerHandshake(e)
    \/ \E e \in active : NetMessage(e)

Spec == Init /\ [][Next]_vars

(***************************************************************************)
(* Both engines, each on its first connection, behind a relay that         *)
(* delivers every frame unmodified and in order                            *)
(***************************************************************************)
Peer(e) == IF e = "I" THEN "R" ELSE "I"

\* the cookie the relay uses towards an engine; the engines then draw
\* cookies that differ from each other
ServerCookie(e) == IF e = "I" THEN "c1" ELSE "c2"

\* the address the relay assigns to an engine
RelayAddress(e) ==
    IF RoleOf(e) = "initiator" THEN SALTYRTC_ADDR_INITIATOR ELSE RESPONDER_ADDR_MIN

\* a frame of the relay to an authenticated engine
RelayFrame(e, msg) ==
    Frame(ServerCookie(e), SALTYRTC_ADDR_SERVER, RelayAddress(e), ZeroCsn, TRUE,
          Box(ServerPermanentKey, PermanentKey(e)), msg)

\* server-auth for engine e, echoing the cookie of its client-auth
RelayServerAuth(e, cookie) ==
    RelayFrame(e, Message("server-auth",
        [NoPayload EXCEPT !.your_cookie = cookie,
                          !.responders = IF e = "I" /\ relay["R"].joined
                                         THEN {RelayAddress("R")} ELSE {},
                          !.initiator_connected = (e = "R" /\ relay["I"].joined)]))

\* what the relay tells engine e when its peer has authenticated
RelayPeerJoined(e) ==
    IF e = "I"
    THEN RelayFrame(e, Message("new-responder", [NoPayload EXCEPT !.id = RelayAddress("R")]))
    ELSE RelayFrame(e, Message("new-initiator", NoPayload))

InitRelay ==
    /\ active = Engines
    /\ \E r \in [Engines -> SeqStarts] : sig = [e \in Engines |-> NewSignaling(e, r[e])]
    /\ relay = NoRelay
    /\ NoUnits

RelayConnect(e) ==
    /\ Connect(e, 1)
    /\ UNCHANGED <<active, relay, units>>

\* the WebSocket opens and the relay sends server-hello
RelayOpen(e) ==
    /\ OnOpen(e)
    /\ relay' = [relay EXCEPT ![e].inbox =
                    Append(@, Frame(ServerCookie(e), SALTYRTC_ADDR_SERVER, SALTYRTC_ADDR_UNKNOWN,
                                    ZeroCsn, TRUE, PlainBox, ServerHelloMessage))]
    /\ UNCHANGED <<active, units>>

Delivered(e) == relay' = [relay EXCEPT ![e].inbox = Tail(@)]

DeliverServerHello(e) ==
    /\ relay[e].inbox # <<>>
    /\ ServerHelloEvent(e, Head(relay[e].inbox))
    /\ Delivered(e)
    /\ UNCHANGED <<active, units>>

DeliverServerAuth(e) ==
    /\ relay[e].inbox # <<>>
    /\ ServerAuthEvent(e, Head(relay[e].inbox))
    /\ Delivered(e)
    /\ UNCHANGED <<active, units>>

DeliverPeerHandshake(e) ==
    /\ relay[e].inbox # <<>>
    /\ PeerHandshakeEvent(e, Head(relay[e].inbox))
    /\ Delivered(e)
    /\ UNCHANGED <<active, units>>

\* the relay handles the next frame an engine sent to 0x00: client-auth is
\* answered with server-auth and announced to an authenticated peer
RelayHandle(e) ==
    LET n == relay[e].handled[SALTYRTC_ADDR_SERVER]
        q == sig[e].sent[SALTYRTC_ADDR_SERVER]
    IN  /\ n < Len(q)
        /\ relay' =
              IF q[n + 1].message.type = "client-auth"
              THEN [relay EXCEPT
                       ![e] = [inbox   |-> Append(relay[e].inbox,
                                                  RelayServerAuth(e, q[n + 1].cookie)),
                               handled |-> [relay[e].handled EXCEPT
                                               ![SALTYRTC_ADDR_SERVER] = n + 1],
                               joined  |-> TRUE],
                       ![Peer(e)].inbox = IF relay[Peer(e)].joined
                                          THEN Append(@, RelayPeerJoined(Peer(e)))
                                          ELSE @]
              ELSE [relay EXCEPT ![e].handled[SALTYRTC_ADDR_SERVER] = n + 1]
        /\ UNCHANGED <<sig, active, units>>

\* the relay forwards the next frame an engine sent to its peer
RelayForward(e) ==
    LET d == RelayAddress(Peer(e))
        n == relay[e].handled[d]
        q == sig[e].sent[d]
    IN  /\ relay[e].joined /\ relay[Peer(e)].joined
        /\ n < Len(q)
        /\ relay' = [relay EXCEPT ![e].handled[d] = n + 1,
                                  ![Peer(e)].inbox = Append(@, q[n + 1])]
        /\ UNCHANGED <<sig, active, units>>

NextRelay ==
    \/ \E e \in active : RelayConnect(e)
    \/ \E e \in active : RelayOpen(e)
    \/ \E e \in active : DeliverServerHello(e)
    \/ \E e \in active : DeliverServerAuth(e)
    \/ \E e \in active : DeliverPeerHandshake(e)
    \/ \E e \in active : RelayHandle(e)
    \/ \E e \in active : RelayForward(e)

\* the hosts connect, the WebSockets open and every frame is handled
SpecRelay == InitRelay /\ [][NextRelay]_vars /\ WF_vars(NextRelay)

(***************************************************************************)
(* A CombinedSequence on its own, at any point of its life: next() is      *)
(* called on it again and again, also after it has thrown.                 *)
(***************************************************************************)
\* next() calls on one object
MaxCalls == 4

\* the largest sequence number, 2^32 - 1
SeqLast == <<HalfWord - 1, HalfWord - 1>>

\* sequence numbers the object may hold: the first two, and the last three
\* before the wrap
SequenceNumbers == {<<0, 0>>, <<0, 1>>, <<HalfWord - 1, HalfWord - 3>>, WrapStart, SeqLast}

\* overflow counts the object may hold: 0 as the constructor sets it, and
\* counts that wraps lead to, up to the last one below OVERFLOW_MAX
Overflows == {0, 1, HalfWord - 2, HalfWord - 1, OVERFLOW_MAX - 2, OVERFLOW_MAX - 1}

\* no engine is constructed
NoEngines ==
    /\ sig = [e \in Engines |-> NewSignaling(e, WrapStart)]
    /\ active = {}
    /\ relay = NoRelay

InitSequence ==
    /\ \E n \in SequenceNumbers, o \in Overflows :
          sequence = [csn   |-> [sequenceNumber |-> n, overflow |-> o],
                      calls |-> <<>>]
    /\ chunkifier = "none"
    /\ unchunkifier = "none"
    /\ NoEngines

\* one call of next(); the call is recorded with what it returned, or with
\* the fields it left behind when it threw
CallNext ==
    /\ Len(sequence.calls) < MaxCalls
    /\ sequence' = [csn   |-> CsnNext(sequence.csn).csn,
                    calls |-> Append(sequence.calls,
                                     [value  |-> CsnNext(sequence.csn).value,
                                      thrown |-> CsnNext(sequence.csn).thrown])]
    /\ UNCHANGED <<engines, chunkifier, unchunkifier>>

NextSequence == CallNext

SpecSequence == InitSequence /\ [][NextSequence]_vars

(***************************************************************************)
(* Chunkifier and Unchunkifier.  A Uint8Array is a sequence of bytes; the  *)
(* index i of the code is position i + 1 here.                             *)
(***************************************************************************)
\* length of the arrays that are chunkified
MaxLen == 4
\* largest chunk size
MaxChunkSize == 4
\* merge() calls on one Unchunkifier
MaxMerges == 2

\* byte values: the two flag values and one that is no flag
Bytes == {0, 1, 255}

Buffers == UNION {[1 .. n -> Bytes] : n \in 0 .. MaxLen}

ChunkSizes == -1 .. MaxChunkSize

Min(a, b) == IF a < b THEN a ELSE b

\* array.slice(begin, end)
Slice(array, begin, end) == SubSeq(array, begin + 1, end)

\* target.set(source, offset) on a target that has room for the source
SetAt(target, source, offset) ==
    [k \in DOMAIN target |->
        IF k > offset /\ k <= offset + Len(source) THEN source[k - offset] ELSE target[k]]

\* new ArrayBuffer(length): zero bytes
Zeros(length) == [k \in 1 .. length |-> 0]

\* no Chunkifier constructed yet
NoChunkifier ==
    [status |-> "none", array |-> <<>>, chunkSize |-> 0, chunks |-> <<>>, chunksNull |-> TRUE]

\* a constructor that takes every chunk size but 0 and below
NewChunkifierLenient(array, chunkSize) ==
    IF Len(array) < 1
    THEN [NoChunkifier EXCEPT !.status = "RangeError: Array may not be empty"]
    ELSE IF chunkSize < 1
    THEN [NoChunkifier EXCEPT !.status = "RangeError: Chunk size must be larger than 1"]
    ELSE [status |-> "created", array |-> array, chunkSize |-> chunkSize,
          chunks |-> <<>>, chunksNull |-> TRUE]

\* new Chunkifier(array, chunkSize): the object, or the error thrown
NewChunkifier(array, chunkSize) ==
    IF Len(array) < 1
    THEN [NoChunkifier EXCEPT !.status = "RangeError: Array may not be empty"]
    ELSE IF chunkSize < 2
    THEN [NoChunkifier EXCEPT !.status = "RangeError: Chunk size must be larger than 1"]
    ELSE [status |-> "created", array |-> array, chunkSize |-> chunkSize,
          chunks |-> <<>>, chunksNull |-> TRUE]

Offset(c, chunkIndex) == chunkIndex * (c.chunkSize - 1)

\* a test that takes the end of the array for a further chunk
HasNextInclusive(c, index) == Offset(c, index) <= Len(c.array)

HasNext(c, index) == Offset(c, index) < Len(c.array)

\* the body of the loop of getChunks for one index
ChunkAt(c, index) ==
    LET offset == Offset(c, index)
        length == Min(c.chunkSize, Len(c.array) + 1 - offset)
        flag   == IF HasNext(c, index + 1) THEN 1 ELSE 0
        end    == Min(Offset(c, index + 1), Len(c.array))
        chunk  == Slice(c.array, offset, end)
    IN  SetAt([Zeros(length) EXCEPT ![1] = flag], chunk, 1)

\* the loop of getChunks from `index` on
RECURSIVE ChunksFrom(_, _)
ChunksFrom(c, index) ==
    IF HasNext(c, index)
    THEN <<ChunkAt(c, index)>> \o ChunksFrom(c, index + 1)
    ELSE <<>>

\* getChunks(): chunks are generated on the first call
GetChunks(c) ==
    IF c.chunksNull
    THEN [c EXCEPT !.chunks = ChunksFrom(c, 0), !.chunksNull = FALSE]
    ELSE c

\* new Unchunkifier(), with the number of calls made on it and the kind and
\* outcome of the last one
NewUnchunkifier ==
    [chunks |-> <<>>, length |-> 0, done |-> FALSE, merged |-> <<>>, mergedNull |-> TRUE,
     calls |-> 0, last |-> [call |-> "none", outcome |-> "none", value |-> <<>>]]

\* add(array): a chunk that is not empty is pushed and counted before the
\* flag is looked at.  The flag is read through new DataView(array.buffer)
\* at offset 0: `first` is byte 0 of the buffer under the array, which is
\* array[0] when the array starts at the start of its buffer and any byte
\* when the array is a view further into a buffer.
UnchunkifierAdd(u, array, first) ==
    LET called == [u EXCEPT !.calls = @ + 1]
        pushed == [called EXCEPT !.chunks = Append(@, array),
                                 !.length = @ + (Len(array) - 1)]
        out(o) == [call |-> "add", outcome |-> o, value |-> <<>>]
    IN  IF u.done
        THEN [called EXCEPT !.last = out("Error: Cannot add more chunks, already complete")]
        ELSE IF Len(array) = 0
        THEN [called EXCEPT !.last = out("undefined")]
        ELSE IF first = 0
        THEN [pushed EXCEPT !.done = TRUE, !.last = out("true")]
        ELSE IF first = 1
        THEN [pushed EXCEPT !.last = out("false")]
        ELSE [pushed EXCEPT !.last = out("Error: Invalid chunk received")]

\* a copy loop that copies the chunks with their first byte
RECURSIVE MergeIntoWhole(_, _, _)
MergeIntoWhole(array, chunks, offset) ==
    IF chunks = <<>> THEN array
    ELSE MergeIntoWhole(SetAt(array, Head(chunks), offset), Tail(chunks),
                        offset + Len(Head(chunks)) - 1)

\* the loop of merge(): every chunk apart from its first byte, at offset
RECURSIVE MergeInto(_, _, _)
MergeInto(array, chunks, offset) ==
    IF chunks = <<>> THEN array
    ELSE MergeInto(SetAt(array, Slice(Head(chunks), 1, Len(Head(chunks))), offset),
                   Tail(chunks), offset + Len(Head(chunks)) - 1)

\* merge()
UnchunkifierMerge(u) ==
    LET called == [u EXCEPT !.calls = @ + 1]
        array  == MergeInto(Zeros(u.length), u.chunks, 0)
        out(o, v) == [call |-> "merge", outcome |-> o, value |-> v]
    IN  IF ~ u.done
        THEN [called EXCEPT !.last = out("Error: Chunks not yet complete", <<>>)]
        ELSE IF ~ u.mergedNull
        THEN [called EXCEPT !.last = out("returned", u.merged)]
        ELSE [called EXCEPT !.merged = array, !.mergedNull = FALSE,
                            !.last = out("returned", array)]

(***************************************************************************)
(* An array is chunkified and its chunks are fed, in order, to a new       *)
(* Unchunkifier; merge() is called at any point in between.                *)
(***************************************************************************)
InitChunks ==
    /\ chunkifier = [array |-> <<>>, chunkSize |-> 0, c |-> NoChunkifier]
    /\ unchunkifier = [u |-> NewUnchunkifier, fed |-> 0]
    /\ sequence = "none"
    /\ NoEngines

\* new Chunkifier(array, chunkSize) for any array and chunk size; the
\* arguments are kept beside the outcome
Construct ==
    /\ chunkifier.c.status = "none"
    /\ \E array \in Buffers, chunkSize \in ChunkSizes :
          chunkifier' = [array |-> array, chunkSize |-> chunkSize,
                         c |-> NewChunkifier(array, chunkSize)]
    /\ UNCHANGED <<engines, sequence, unchunkifier>>

CallGetChunks ==
    /\ chunkifier.c.status = "created"
    /\ chunkifier.c.chunksNull
    /\ chunkifier' = [chunkifier EXCEPT !.c = GetChunks(@)]
    /\ UNCHANGED <<engines, sequence, unchunkifier>>

\* the next chunk of the list getChunks() returned is added; getChunks
\* makes every chunk an array over the whole of a buffer of its own
FeedChunk ==
    /\ chunkifier.c.status = "created"
    /\ ~ chunkifier.c.chunksNull
    /\ unchunkifier.fed < Len(chunkifier.c.chunks)
    /\ unchunkifier' =
          [u   |-> UnchunkifierAdd(unchunkifier.u, chunkifier.c.chunks[unchunkifier.fed + 1],
                                   chunkifier.c.chunks[unchunkifier.fed + 1][1]),
           fed |-> unchunkifier.fed + 1]
    /\ UNCHANGED <<engines, sequence, chunkifier>>

\* merge() is called, before or after the last chunk was added
CallMerge ==
    /\ chunkifier.c.status = "created"
    /\ unchunkifier.u.calls - unchunkifier.fed < MaxMerges
    /\ unchunkifier' = [unchunkifier EXCEPT !.u = UnchunkifierMerge(@)]
    /\ UNCHANGED <<engines, sequence, chunkifier>>

NextChunks ==
    \/ Construct
    \/ CallGetChunks
    \/ FeedChunk
    \/ CallMerge

SpecChunks == InitChunks /\ [][NextChunks]_vars

(***************************************************************************)
(* An Unchunkifier on its own: any chunks are added to it, and merge() is  *)
(* called at any point.                                                    *)
(***************************************************************************)
\* add() calls on one Unchunkifier
MaxAdds == 3

\* the bytes of a chunk after its first byte
Payloads == {<<>>, <<255>>, <<0, 1>>}

\* the arrays that are added: the empty array, and every first byte before
\* every payload
ChunkArrays == {<<>>} \cup {<<b>> \o p : b \in Bytes, p \in Payloads}

\* byte 0 of the buffer under `array`: the first element of the array when
\* the array spans its buffer (new Uint8Array(buffer), Uint8Array.of), any
\* byte when the array is a view at a byteOffset above 0 (subarray)
BufferStarts(array) == IF array = <<>> THEN {0} ELSE Bytes

\* `adds` is the log of the add() calls: the array, byte 0 of its buffer
\* and the outcome
InitUnchunk ==
    /\ unchunkifier = [u |-> NewUnchunkifier, fed |-> 0, adds |-> <<>>]
    /\ chunkifier = [array |-> <<>>, chunkSize |-> 0, c |-> NoChunkifier]
    /\ sequence = "none"
    /\ NoEngines

\* add(array) where byte 0 of array.buffer is `first`
AddChunk(array, first) ==
    /\ unchunkifier.fed < MaxAdds
    /\ unchunkifier' =
          [u    |-> UnchunkifierAdd(unchunkifier.u, array, first),
           fed  |-> unchunkifier.fed + 1,
           adds |-> Append(unchunkifier.adds,
                           [array   |-> array,
                            first   |-> first,
                            outcome |-> UnchunkifierAdd(unchunkifier.u, array, first).last.outcome])]
    /\ UNCHANGED <<engines, sequence, chunkifier>>

AddAnyChunk == \E array \in ChunkArrays : \E first \in BufferStarts(array) : AddChunk(array, first)

MergeChunks ==
    /\ unchunkifier.u.calls - unchunkifier.fed < MaxMerges
    /\ unchunkifier' = [unchunkifier EXCEPT !.u = UnchunkifierMerge(@)]
    /\ UNCHANGED <<engines, sequence, chunkifier>>

NextUnchunk ==
    \/ AddAnyChunk
    \/ MergeChunks

SpecUnchunk == InitUnchunk /\ [][NextUnchunk]_vars

(***************************************************************************)
(* One engine in an arbitrary network whose host calls connect() again     *)
(* after an abort, a failure or a close; the network has one responder     *)
(* address, 0x02                                                           *)
(***************************************************************************)
\* a frame that names no responder address above 0x02
OneResponder(f) ==
    /\ f.source <= RESPONDER_ADDR_MIN
    /\ f.destination <= RESPONDER_ADDR_MIN
    /\ f.message.id <= RESPONDER_ADDR_MIN
    /\ f.message.responders \subseteq {RESPONDER_ADDR_MIN}

ReconnectServerAuth(e) ==
    /\ \E f \in {g \in ServerAuthFrames(sig[e]) : OneResponder(g)} : ServerAuthEvent(e, f)
    /\ UNCHANGED <<active, relay, units>>

ReconnectPeerHandshake(e) ==
    /\ \E f \in {g \in PeerHandshakeFrames(sig[e]) : OneResponder(g)} : PeerHandshakeEvent(e, f)
    /\ UNCHANGED <<active, relay, units>>

HostReconnect(e) ==
    /\ Connect(e, MaxConnects)
    /\ UNCHANGED <<active, relay, units>>

NextReconnect ==
    \/ \E e \in active : HostReconnect(e)
    \/ \E e \in active : SocketOpen(e)
    \/ \E e \in active : SocketError(e)
    \/ \E e \in active : SocketClose(e)
    \/ \E e \in active : NetServerHello(e)
    \/ \E e \in active : ReconnectServerAuth(e)
    \/ \E e \in active : ReconnectPeerHandshake(e)
    \/ \E e \in active : NetMessage(e)

SpecReconnect == Init /\ [][NextReconnect]_vars

(***************************************************************************)
(* Properties of the handshake                                             *)
(***************************************************************************)
\* abort() took `s` to `t`: listener removed, transport closed, state new
AbortedFrom(s, t) ==
    /\ s.ws # 0
    /\ t.ws = 0
    /\ t.socks[s.ws] = "closing"
    /\ t.handler # "peer"
    /\ t.state = "new"

DropFrames(frames) == SelectSeq(frames, LAMBDA f : f.message.type = "drop-responder")

NewlySent(s, t, dst) == SubSeq(t.sent[dst], Len(s.sent[dst]) + 1, Len(t.sent[dst]))

\* the step of engine e that takes it to state open
Opens(e) == sig[e].state # "open" /\ sig'[e].state = "open"

\* C1: when the initiator accepts the auth frame of a responder s in state
\* key-received and becomes open, s is the chosen responder, the map of
\* responders is empty, and the frames sent to the server in that step are
\* exactly one drop-responder for every other id that was in the map, none
\* for s; no drop-responder was sent before.
C1_ElectsOne ==
    [][\A e \in Engines :
          (sig[e].role = "initiator" /\ Opens(e)) =>
              LET s      == sig'[e].responder.id
                  others == (DOMAIN sig[e].responders) \ {s}
                  drops  == NewlySent(sig[e], sig'[e], SALTYRTC_ADDR_SERVER)
              IN  /\ s \in DOMAIN sig[e].responders
                  /\ sig[e].responders[s].state = "key-received"
                  /\ sig'[e].heard[s] # sig[e].heard[s]
                  /\ sig'[e].heard[s][Len(sig'[e].heard[s])].message.type = "auth"
                  /\ sig'[e].responder = sig[e].responders[s]
                  /\ DOMAIN sig'[e].responders = {}
                  /\ DropFrames(sig[e].sent[SALTYRTC_ADDR_SERVER]) = <<>>
                  /\ DropFrames(drops) = drops
                  /\ Len(drops) = Cardinality(others)
                  /\ { drops[i].message.id : i \in DOMAIN drops } = others
                  /\ \A i \in DOMAIN drops : drops[i].destination = SALTYRTC_ADDR_SERVER
    ]_vars

C1_Witness ==
    /\ sig["I"].state = "open"
    /\ sig["I"].responder.id = 3
    /\ Len(DropFrames(sig["I"].sent[SALTYRTC_ADDR_SERVER])) = 2

\* C3: an initiator in state open has accepted exactly three frames of the
\* chosen responder: a token under the auth token, a key under its
\* permanent key against the permanent key of the token, and an auth under
\* the session KeyStore of that responder against the session key of the
\* key frame, with your_cookie equal to its own cookie.
C3_InitiatorOpenOnlyAfterTokenKeyAuth ==
    \A e \in Engines :
        (sig[e].role = "initiator" /\ sig[e].state = "open") =>
            LET s == sig[e].responder.id
                h == sig[e].heard[s]
            IN  /\ s \in ResponderIds
                /\ Len(h) = 3
                /\ h[1].message.type = "token"
                /\ AuthTokenDecrypts(h[1].box, sig[e].authToken)
                /\ h[2].message.type = "key"
                /\ KeyStoreDecrypts(h[2].box, sig[e].permanentKey, h[1].message.key)
                /\ h[3].message.type = "auth"
                /\ KeyStoreDecrypts(h[3].box, sig[e].responder.keyStore, h[2].message.key)
                /\ h[3].message.your_cookie = sig[e].cookiePair.ours

C3_Witness ==
    /\ sig["I"].state = "open"
    /\ Len(sig["I"].heard[sig["I"].responder.id]) = 3
    /\ "connected" \in sig["I"].notified

\* the responder of C4 in state open: what it heard of 0x01 and sent to it
ResponderOpenedProperly(s) ==
    LET h == s.heard[SALTYRTC_ADDR_INITIATOR]
        n == Len(h)
        o == s.sent[SALTYRTC_ADDR_INITIATOR]
        m == Len(o)
    IN  /\ s.initiatorHandshakeState = "auth-received"
        /\ n >= 2
        /\ m >= 3
        /\ o[m - 2].message.type = "token"
        /\ h[n - 1].message.type = "key"
        /\ KeyStoreDecrypts(h[n - 1].box, s.permanentKey, s.initiatorPermanentKey)
        /\ o[m - 1].message.type = "key"
        /\ o[m - 1].message.key = s.sessionKey
        /\ s.sessionKey # s.permanentKey
        /\ \A i \in 1 .. (m - 2) : o[i].message.key # s.sessionKey
        /\ h[n].message.type = "auth"
        /\ KeyStoreDecrypts(h[n].box, s.sessionKey, h[n - 1].message.key)
        /\ h[n].message.your_cookie = s.cookiePair.ours
        /\ o[m].message.type = "auth"

\* the sub-state of the responder moves along new, token-sent, key-sent,
\* auth-received between two handlers (the handler of server-auth sets new
\* and may send the token at once; a new token takes key-sent back to
\* token-sent)
SubStateStep(a, b) ==
    \/ a = b
    \/ a = "null" /\ b \in {"new", "token-sent"}
    \/ a \in {"new", "key-sent"} /\ b = "token-sent"
    \/ a = "token-sent" /\ b = "key-sent"
    \/ a = "key-sent" /\ b = "auth-received"

\* C4: the sub-state of the responder only moves along new, token-sent,
\* key-sent, auth-received; it becomes open in the step from key-sent to
\* auth-received, in which it sends its auth reply; and when it is open it
\* has sent token, then accepted a key frame of 0x01 under its permanent key
\* against the initiator's, answered with a key frame carrying a session
\* key it never used before, then accepted an auth frame under the session
\* keys with your_cookie equal to its own cookie, and sent its auth reply.
C4_ResponderOpenOnlyAlongSubStates ==
    /\ [](\A e \in Engines :
            (sig[e].role = "responder" /\ sig[e].state = "open") =>
                ResponderOpenedProperly(sig[e]))
    /\ [][\A e \in Engines :
            sig[e].role = "responder" =>
                /\ SubStateStep(sig[e].initiatorHandshakeState, sig'[e].initiatorHandshakeState)
                /\ Opens(e) =>
                      /\ sig[e].initiatorHandshakeState = "key-sent"
                      /\ sig'[e].initiatorHandshakeState = "auth-received"
                      /\ Len(NewlySent(sig[e], sig'[e], SALTYRTC_ADDR_INITIATOR)) = 1
                      /\ NewlySent(sig[e], sig'[e], SALTYRTC_ADDR_INITIATOR)[1].message.type = "auth"
      ]_vars

C4_Witness ==
    /\ sig["R"].state = "open"
    /\ sig["R"].initiatorHandshakeState = "auth-received"
    /\ Len(sig["R"].sent[SALTYRTC_ADDR_INITIATOR]) > 3

\* the server-auth frame of C5, as the second frame accepted of the server
ServerAuthAccepted(s) ==
    LET h == s.heard[SALTYRTC_ADDR_SERVER]
    IN  /\ Len(h) >= 2
        /\ h[1].message.type = "server-hello"
        /\ h[2].long
        /\ KeyStoreDecrypts(h[2].box, s.permanentKey, h[1].message.key)
        /\ h[2].source = SALTYRTC_ADDR_SERVER
        /\ s.role = "initiator" => h[2].destination = SALTYRTC_ADDR_INITIATOR
        /\ s.role = "responder" =>
              h[2].destination \in RESPONDER_ADDR_MIN .. RESPONDER_ADDR_MAX
        /\ h[2].message.type = "server-auth"
        /\ h[2].message.your_cookie = s.cookiePair.ours

\* C5: an engine in state peer-handshake has accepted a server-auth frame
\* that is longer than the nonce, decrypts under its permanent key against
\* the key of server-hello, has source 0x00 and a destination valid for the
\* role, type server-auth and your_cookie equal to its own cookie; the
\* state becomes peer-handshake only in the step that accepts this frame,
\* and once the server handshake has thrown the state does not become
\* peer-handshake on that WebSocket.
C5_PeerHandshakeOnlyAfterServerAuth ==
    /\ [](\A e \in Engines :
            sig[e].state = "peer-handshake" => ServerAuthAccepted(sig[e]))
    /\ [][\A e \in Engines :
            /\ (sig[e].state # "peer-handshake" /\ sig'[e].state = "peer-handshake") =>
                  /\ sig[e].handler = "recv"
                  /\ Len(sig[e].heard[SALTYRTC_ADDR_SERVER]) = 1
            /\ (/\ sig[e].state = "server-handshake"
                /\ sig[e].handler = "none"
                /\ Len(sig'[e].socks) = Len(sig[e].socks)) =>
                  /\ sig'[e].state # "peer-handshake"
                  /\ sig'[e].handler = "none"
      ]_vars

C5_Witness ==
    \E e \in Engines :
        /\ sig[e].state = "peer-handshake"
        /\ sig[e].handler = "peer"
        /\ Len(sig[e].heard[SALTYRTC_ADDR_SERVER]) = 2

\* the auth frames of source `src` that `s` decrypts with `own` against
\* `other` and whose your_cookie is not the cookie of `s`
OtherCookieAuth(s, src, own, other) ==
    { Frame(c, src, s.address, ZeroCsn, TRUE, Box(other, own),
            Message("auth", [NoPayload EXCEPT !.your_cookie = y])) :
        c \in Cookies, y \in Cookies \ {s.cookiePair.ours} }

\* the auth frames of C7 for an engine: of 0x01 on a responder in key-sent,
\* of every responder in key-received on the initiator
AuthWithOtherCookie(s) ==
    IF s.role = "responder"
    THEN IF s.initiatorHandshakeState = "key-sent"
         THEN OtherCookieAuth(s, SALTYRTC_ADDR_INITIATOR, s.sessionKey, s.initiatorSessionKey)
         ELSE {}
    ELSE UNION { OtherCookieAuth(s, id, s.responders[id].keyStore, s.responders[id].sessionKey) :
                   id \in {i \in ResponderIds \cap DOMAIN s.responders :
                              s.responders[i].state = "key-received"} }

\* C7: on either role the handler of an auth frame that decrypts in the
\* sub-state expecting auth and whose your_cookie is not the own cookie
\* aborts: the engine is not open, nothing was sent (no auth reply, no
\* drop-responder), no responder is elected, the host is not told it is
\* connected, the transport is closed and the state is new.
C7_AuthWithOtherCookieAborts ==
    [][\A e \in Engines :
          sig[e].handler = "peer" =>
              \A f \in AuthWithOtherCookie(sig[e]) :
                  PeerHandshakeEvent(e, f) =>
                      /\ AbortedFrom(sig[e], sig'[e])
                      /\ sig'[e].state # "open"
                      /\ sig'[e].sent = sig[e].sent
                      /\ sig'[e].responder = sig[e].responder
                      /\ sig'[e].responders = sig[e].responders
                      /\ sig'[e].notified = sig[e].notified
    ]_vars

C7_Witness ==
    \E e \in Engines :
        /\ sig[e].outcome = "bad-cookie"
        /\ sig[e].state = "new"
        /\ sig[e].ws = 0
        /\ sig[e].socks = <<"closing">>
        /\ sig[e].heard[SALTYRTC_ADDR_SERVER] # <<>>

\* a frame that does not decrypt under the keys `s` selects for its source
FailsToDecrypt(s, f) ==
    IF f.source = SALTYRTC_ADDR_SERVER
    THEN ~ KeyStoreDecrypts(f.box, s.permanentKey, s.serverKey)
    ELSE IF f.source = SALTYRTC_ADDR_INITIATOR
    THEN s.role = "responder" /\ ~ InitiatorDecrypts(s, f.box)
    ELSE /\ s.role = "initiator"
         /\ f.source \in DOMAIN s.responders
         /\ ~ ResponderDecrypts(s, s.responders[f.source], f.box)

\* C6: during the peer handshake the handler of every frame addressed to
\* the engine that does not decrypt under the key selected for it aborts:
\* listener removed, transport closed, state new.
C6_DecryptionFailureAborts ==
    [][\A e \in Engines :
          sig[e].handler = "peer" =>
              \A f \in PeerHandshakeFrames(sig[e]) :
                  (/\ f.destination = sig[e].address
                   /\ FailsToDecrypt(sig[e], f)
                   /\ PeerHandshakeEvent(e, f)) =>
                      AbortedFrom(sig[e], sig'[e])
    ]_vars

\* the connection of `s` was torn down and the host told of the error
TornDownFrom(s, t) ==
    /\ t.state = "new"
    /\ t.ws = 0
    /\ t.socks[s.ws] \notin {"connecting", "open"}
    /\ "error" \in t.notified

\* C8: when the server handshake raises an error on server-hello or on
\* server-auth, the transport is torn down, the host is notified of a
\* connection error and the state is new.
C8_ServerHandshakeErrorIsFatal ==
    [][\A e \in Engines :
          /\ sig[e].handler = "init" =>
                \A f \in ServerHelloFrames(sig[e]) :
                    (ServerHelloError(sig[e], f) # "none" /\ ServerHelloEvent(e, f)) =>
                        TornDownFrom(sig[e], sig'[e])
          /\ sig[e].handler = "recv" =>
                \A f \in ServerAuthFrames(sig[e]) :
                    (/\ \/ ServerAuthFrameError(sig[e], f) \in
                              {"bad-message-length", "bad-nonce-source", "bad-nonce-destination"}
                        \/ /\ ServerAuthFrameError(sig[e], f) = "none"
                           /\ ServerAuthMessageError(sig[e], f) \in
                                 {"bad-message-type", "bad-cookie"}
                     /\ ServerAuthEvent(e, f)) =>
                        TornDownFrom(sig[e], sig'[e])
    ]_vars

\* C9: during the peer handshake the handler of a frame whose destination
\* is not the address of the engine aborts (listener removed, transport
\* closed, state new) and changes neither the map of responders nor the
\* sub-state of the responder.
C9_BadDestinationAborts ==
    [][\A e \in Engines :
          sig[e].handler = "peer" =>
              \A f \in PeerHandshakeFrames(sig[e]) :
                  (f.destination # sig[e].address /\ PeerHandshakeEvent(e, f)) =>
                      /\ AbortedFrom(sig[e], sig'[e])
                      /\ sig'[e].responders = sig[e].responders
                      /\ sig'[e].initiatorHandshakeState = sig[e].initiatorHandshakeState
    ]_vars

\* C10: the frames the initiator sent to one responder carry strictly
\* increasing (overflow, sequence number) values.
C10_ResponderFramesIncrease ==
    \A e \in Engines :
        sig[e].role = "initiator" =>
            \A d \in ResponderIds :
                \A i, j \in DOMAIN sig[e].sent[d] :
                    i < j => CsnLess(sig[e].sent[d][i].csn, sig[e].sent[d][j].csn)

\* C2: behind a relay that delivers every frame unmodified and in order,
\* with distinct cookies, matching permanent keys and one auth token, the
\* initiator and the responder both eventually reach state open.
C2_BothReachOpen == <>(\A e \in Engines : sig[e].state = "open")

\* both open after the responder authenticated first and sent its token on
\* new-initiator
C2_Witness ==
    /\ \A e \in Engines : sig[e].state = "open"
    /\ \E i \in DOMAIN sig["R"].heard[SALTYRTC_ADDR_SERVER] :
          sig["R"].heard[SALTYRTC_ADDR_SERVER][i].message.type = "new-initiator"

\* the sequence values of the frames in `frames` increase strictly, in the
\* order the frames were sent
StrictlyIncreasing(frames) ==
    \A i, j \in DOMAIN frames :
        i < j => CsnLess(frames[i].csn, frames[j].csn)

\* C11: within one connection the frames an engine sends to the server
\* (client-hello, client-auth, every drop-responder of the election) carry
\* strictly increasing (overflow, sequence) values, so no two drop-responder
\* frames share a nonce; so do the frames a responder sends to 0x01 (token,
\* key, auth).
C11_ServerAndInitiatorFramesIncrease ==
    \A e \in Engines :
        /\ StrictlyIncreasing(sig[e].sent[SALTYRTC_ADDR_SERVER])
        /\ \A i, j \in DOMAIN DropFrames(sig[e].sent[SALTYRTC_ADDR_SERVER]) :
              i # j => DropFrames(sig[e].sent[SALTYRTC_ADDR_SERVER])[i].csn
                           # DropFrames(sig[e].sent[SALTYRTC_ADDR_SERVER])[j].csn
        /\ sig[e].role = "responder" =>
              StrictlyIncreasing(sig[e].sent[SALTYRTC_ADDR_INITIATOR])

\* the initiator sent client-auth and two drop-responder frames, and the
\* sequence number wrapped around between them
C11_Witness ==
    /\ sig["I"].state = "open"
    /\ Len(DropFrames(sig["I"].sent[SALTYRTC_ADDR_SERVER])) = 2
    /\ sig["I"].sent[SALTYRTC_ADDR_SERVER][1].csn.overflow = 0
    /\ DropFrames(sig["I"].sent[SALTYRTC_ADDR_SERVER])[2].csn.overflow = 1

(***************************************************************************)
(* Properties of CombinedSequence                                          *)
(***************************************************************************)
\* sequence number n is m + 1
Follows(m, n) ==
    \/ m[2] < HalfWord - 1 /\ n = <<m[1], m[2] + 1>>
    \/ m[2] = HalfWord - 1 /\ m[1] < HalfWord - 1 /\ n = <<m[1] + 1, 0>>

\* from pair a to pair b the sequence number grows by one, or it was the
\* largest and wraps to 0 while overflow grows by one
StepOrWrap(a, b) ==
    IF a.sequenceNumber = SeqLast
    THEN b.sequenceNumber = <<0, 0>> /\ b.overflow = a.overflow + 1
    ELSE Follows(a.sequenceNumber, b.sequenceNumber) /\ b.overflow = a.overflow

\* C12: the pairs one CombinedSequence returns from successful next() calls
\* are strictly increasing in the lexicographic order on (overflow,
\* sequence), so none is returned twice; from one successful call to the
\* next the sequence number grows by one, or wraps to 0 exactly when it was
\* 2^32 - 1, and overflow then grows by one.
C12_NextStrictlyIncreasing ==
    /\ \A i, j \in DOMAIN sequence.calls :
          (i < j /\ ~ sequence.calls[i].thrown /\ ~ sequence.calls[j].thrown) =>
              CsnLess(sequence.calls[i].value, sequence.calls[j].value)
    /\ \A i, j \in DOMAIN sequence.calls :
          (j = i + 1 /\ ~ sequence.calls[i].thrown /\ ~ sequence.calls[j].thrown) =>
              StepOrWrap(sequence.calls[i].value, sequence.calls[j].value)

\* four successful calls, the third of which wrapped the sequence number
C12_Witness ==
    /\ Len(sequence.calls) = 4
    /\ \A i \in 1 .. 4 : ~ sequence.calls[i].thrown
    /\ sequence.calls[2].value.sequenceNumber = SeqLast
    /\ sequence.calls[3].value.sequenceNumber = <<0, 0>>

\* C13: CombinedSequence is a 48 bit counter: no pair that next() returns
\* has an overflow of 2^16 or more, the call that would take overflow to
\* 2^16 throws.
C13_OverflowBelowTwoToThe16 ==
    \A i \in DOMAIN sequence.calls :
        ~ sequence.calls[i].thrown => sequence.calls[i].value.overflow < 65536

(***************************************************************************)
(* Further properties of the handshake                                     *)
(***************************************************************************)
\* C14: once server-hello has been processed the cookie pair has
\* ours # theirs, where theirs is the cookie of the nonce of the
\* server-hello of this connection, whatever cookies the random source
\* returned.
C14_OurCookieDiffers ==
    \A e \in Engines :
        sig[e].cookiePair # NullCookiePair =>
            /\ sig[e].cookiePair.ours \in Cookies
            /\ sig[e].cookiePair.ours # sig[e].cookiePair.theirs
            /\ sig[e].heard[SALTYRTC_ADDR_SERVER] # <<>> =>
                  sig[e].cookiePair.theirs = sig[e].heard[SALTYRTC_ADDR_SERVER][1].cookie

\* both engines processed a server-hello, one with each cookie of the server
C14_Witness ==
    /\ sig["I"].heard[SALTYRTC_ADDR_SERVER] # <<>>
    /\ sig["R"].heard[SALTYRTC_ADDR_SERVER] # <<>>
    /\ sig["I"].cookiePair.theirs = "c1"
    /\ sig["R"].cookiePair.theirs = "c2"

\* the sender and the receiver of a frame form a row of the key selection
\* matrix: anyone to the server, a responder to the initiator, the
\* initiator to a responder
MatrixRow(t, d) ==
    \/ d = SALTYRTC_ADDR_SERVER
    \/ t.role = "responder" /\ d = SALTYRTC_ADDR_INITIATOR
    \/ t.role = "initiator" /\ d \in RESPONDER_ADDR_MIN .. RESPONDER_ADDR_MAX

\* the box the matrix gives engine `t` for a message of `type` to `d`
MatrixBox(t, d, type) ==
    IF d = SALTYRTC_ADDR_SERVER
    THEN [kind |-> "box", a |-> t.permanentKey, b |-> t.serverKey]
    ELSE IF d = SALTYRTC_ADDR_INITIATOR
    THEN CASE type = "token" -> [kind |-> "secret", a |-> t.authToken, b |-> NoKey]
           [] type = "key"   -> [kind |-> "box", a |-> t.permanentKey,
                                 b |-> t.initiatorPermanentKey]
           [] OTHER          -> [kind |-> "box", a |-> t.sessionKey,
                                 b |-> t.initiatorSessionKey]
    ELSE CASE type = "key" -> [kind |-> "box", a |-> t.permanentKey,
                               b |-> t.responders[d].permanentKey]
           [] OTHER        -> [kind |-> "box", a |-> t.responders[d].keyStore,
                               b |-> t.responders[d].sessionKey]

\* C15: every encrypted frame an engine sends is encrypted with the key the
\* selection matrix gives for its receiver and message type, taken from the
\* engine as the sending step leaves it, and that key is set: to the server
\* own permanent key against the server key; responder to initiator the
\* auth token for token, the permanent keys for key, the session keys
\* otherwise; initiator to responder r the permanent keys for key, the
\* session KeyStore kept for r against the session key of r otherwise.
C15_KeySelection ==
    [][\A e \in Engines : \A d \in Addresses :
          \A i \in DOMAIN NewlySent(sig[e], sig'[e], d) :
              LET f == NewlySent(sig[e], sig'[e], d)[i]
              IN  (f.box.kind # "plain" /\ MatrixRow(sig'[e], d)) =>
                      /\ f.box = MatrixBox(sig'[e], d, f.message.type)
                      /\ f.box.a # NoKey
                      /\ f.box.kind = "box" => f.box.b # NoKey
    ]_vars

\* the initiator sent key and then auth to responder 0x02, under different
\* keys
C15_Witness ==
    /\ sig["I"].role = "initiator"
    /\ Len(sig["I"].sent[2]) = 2
    /\ sig["I"].sent[2][1].message.type = "key"
    /\ sig["I"].sent[2][2].message.type = "auth"
    /\ sig["I"].sent[2][1].box # sig["I"].sent[2][2].box
    /\ sig["I"].sent[2][2].box.kind = "box"

\* the token frames the initiator accepted under its auth token in this
\* connection, each with the responder id it came from
TokensAccepted(s) ==
    UNION { { <<d, i>> : i \in { k \in DOMAIN s.heard[d] :
                                   /\ s.heard[d][k].message.type = "token"
                                   /\ s.heard[d][k].box = SecretBox(s.authToken) } } :
            d \in ResponderIds }

\* C16: the auth token is consumed once: after it authenticated the token
\* message of one responder, the initiator accepts no further frame under
\* it, from no other responder id.
C16_AuthTokenUsedOnce ==
    \A e \in Engines :
        sig[e].role = "initiator" => Cardinality(TokensAccepted(sig[e])) <= 1

\* C17: an engine that was closed is in state closed with its transport
\* closed or closing, holds no key material of the connection (server key,
\* session keys, keys of responders) and has no responders in its map.
C17_ClosedEngineIsCleared ==
    \A e \in Engines :
        sig[e].state = "closed" =>
            /\ \A i \in DOMAIN sig[e].socks : sig[e].socks[i] \in {"closing", "closed"}
            /\ sig[e].serverKey = NoKey
            /\ sig[e].sessionKey = NoKey
            /\ sig[e].initiatorSessionKey = NoKey
            /\ sig[e].responder = NoResponder
            /\ sig[e].responders \in {NullResponders, EmptyResponders}

(***************************************************************************)
(* Properties of Chunkifier and Unchunkifier                               *)
(***************************************************************************)
\* a Chunkifier was made for a non-empty array and a chunk size of 2 or
\* more, and getChunks() was called
Chunked ==
    /\ Len(chunkifier.array) >= 1
    /\ chunkifier.chunkSize >= 2
    /\ chunkifier.c.status = "created"
    /\ ~ chunkifier.c.chunksNull

\* C18: for every non-empty array and every chunk size of 2 or more, when
\* the chunks of getChunks() are added in order to a new Unchunkifier, every
\* add before the last reports false, the last add reports true, and
\* merge() then returns exactly the array.
C18_UnchunkifyReturnsArray ==
    (Len(chunkifier.array) >= 1 /\ chunkifier.chunkSize >= 2) =>
        /\ chunkifier.c.status = "created"
        /\ (~ chunkifier.c.chunksNull /\ unchunkifier.u.last.call = "add") =>
              unchunkifier.u.last.outcome =
                  IF unchunkifier.fed = Len(chunkifier.c.chunks) THEN "true" ELSE "false"
        /\ (~ chunkifier.c.chunksNull /\ unchunkifier.u.last.call = "merge"
                /\ unchunkifier.fed = Len(chunkifier.c.chunks)) =>
              /\ unchunkifier.u.last.outcome = "returned"
              /\ unchunkifier.u.last.value = chunkifier.array

\* four chunks of size 2 were added and merge() returned the array, which
\* holds both flag values as payload
C18_Witness ==
    /\ Chunked
    /\ chunkifier.chunkSize = 2
    /\ Len(chunkifier.c.chunks) = 4
    /\ unchunkifier.fed = 4
    /\ unchunkifier.u.last.call = "merge"
    /\ unchunkifier.u.last.value = <<1, 0, 255, 1>>

\* the number of chunks for an array of n bytes and chunk size C
ChunkCount(n, C) == (n + (C - 1) - 1) \div (C - 1)

\* C19: for every non-empty array and chunk size C >= 2, getChunks()
\* returns ceil(length / (C - 1)) chunks; every chunk but the last has flag
\* byte 1 and C bytes, the next C - 1 bytes of the array; the last chunk
\* has flag byte 0 and the remaining r bytes of the array, 1 <= r <= C - 1.
C19_ChunkShape ==
    Chunked =>
        LET C      == chunkifier.chunkSize
            array  == chunkifier.array
            chunks == chunkifier.c.chunks
            n      == Len(chunks)
        IN  /\ n = ChunkCount(Len(array), C)
            /\ \A i \in 1 .. n - 1 :
                  /\ chunks[i][1] = 1
                  /\ Len(chunks[i]) = C
                  /\ \A k \in 1 .. C - 1 : chunks[i][k + 1] = array[(i - 1) * (C - 1) + k]
            /\ chunks[n][1] = 0
            /\ Len(chunks[n]) - 1 \in 1 .. C - 1
            /\ Len(chunks[n]) - 1 = Len(array) - (n - 1) * (C - 1)
            /\ \A k \in 1 .. Len(chunks[n]) - 1 :
                  chunks[n][k + 1] = array[(n - 1) * (C - 1) + k]

\* an array of four bytes in chunks of size 4: a full chunk with flag 1,
\* then a last chunk with the one remaining byte
C19_Witness ==
    /\ Chunked
    /\ Len(chunkifier.array) = 4
    /\ chunkifier.chunkSize = 4
    /\ Len(chunkifier.c.chunks) = 2
    /\ Len(chunkifier.c.chunks[2]) = 2

\* C20: new Chunkifier is rejected with a RangeError, and no object is
\* made, when the array is empty or the chunk size is below 2; for every
\* non-empty array with a chunk size of 2 or more the object is made.
C20_ConstructorRange ==
    chunkifier.c.status # "none" =>
        IF Len(chunkifier.array) < 1 \/ chunkifier.chunkSize < 2
        THEN /\ chunkifier.c.status \in {"RangeError: Array may not be empty",
                                         "RangeError: Chunk size must be larger than 1"}
             /\ [chunkifier.c EXCEPT !.status = "none"] = NoChunkifier
        ELSE /\ chunkifier.c.status = "created"
             /\ chunkifier.c.array = chunkifier.array
             /\ chunkifier.c.chunkSize = chunkifier.chunkSize

\* a non-empty array with chunk size 1 was rejected
C20_Witness ==
    /\ Len(chunkifier.array) = 2
    /\ chunkifier.chunkSize = 1
    /\ chunkifier.c.status = "RangeError: Chunk size must be larger than 1"

(***************************************************************************)
(* Properties of the Unchunkifier under any chunks                         *)
(***************************************************************************)
\* add() returned, it did not throw
Accepted(outcome) == outcome \in {"true", "false", "undefined"}

\* an add() call of the log accepted a chunk whose flag byte is 0x00
TerminalAccepted(adds) ==
    \E i \in DOMAIN adds :
        /\ Accepted(adds[i].outcome)
        /\ adds[i].array # <<>>
        /\ adds[i].array[1] = 0

\* the Unchunkifier holds the same chunks, length, completion and merged
\* value in u and v
SameContent(u, v) ==
    /\ u.chunks = v.chunks
    /\ u.length = v.length
    /\ u.done = v.done
    /\ u.merged = v.merged
    /\ u.mergedNull = v.mergedNull

\* C21: an Unchunkifier is complete exactly from the first accepted chunk
\* with flag 0x00 on: merge() fails with 'Chunks not yet complete' as long
\* as no such chunk was accepted and returns once one was; after that
\* every add fails with 'already complete' and changes nothing.
C21_CompleteFromTerminalChunk ==
    [][/\ MergeChunks =>
             (unchunkifier'.u.last.outcome = "Error: Chunks not yet complete"
                 <=> ~ TerminalAccepted(unchunkifier.adds))
       /\ MergeChunks =>
             (unchunkifier'.u.last.outcome = "returned"
                 <=> TerminalAccepted(unchunkifier.adds))
       /\ \A array \in ChunkArrays : \A first \in BufferStarts(array) :
             (AddChunk(array, first) /\ TerminalAccepted(unchunkifier.adds)) =>
                 /\ unchunkifier'.u.last.outcome =
                        "Error: Cannot add more chunks, already complete"
                 /\ SameContent(unchunkifier.u, unchunkifier'.u)
    ]_vars

\* C22: add rejects with 'Invalid chunk received' every non-empty chunk
\* whose first byte is neither 0x00 nor 0x01, whatever was added to the not
\* yet complete Unchunkifier before, and the Unchunkifier is not complete
\* after it.
C22_InvalidFlagRejected ==
    [][\A array \in ChunkArrays : \A first \in BufferStarts(array) :
          (/\ AddChunk(array, first)
           /\ ~ unchunkifier.u.done
           /\ array # <<>>
           /\ array[1] \notin {0, 1}) =>
              /\ unchunkifier'.u.last.outcome = "Error: Invalid chunk received"
              /\ ~ unchunkifier'.u.done
    ]_vars

\* C23: adding an empty chunk to a not yet complete Unchunkifier raises no
\* error, returns false, and leaves chunks, length, completion and merged
\* value as they were.
C23_EmptyChunkIgnored ==
    [][\A first \in BufferStarts(<<>>) :
          (AddChunk(<<>>, first) /\ ~ unchunkifier.u.done) =>
              /\ unchunkifier'.u.last.outcome = "false"
              /\ SameContent(unchunkifier.u, unchunkifier'.u)
    ]_vars

\* C24: for every non-empty chunk whose flag byte is 0x00 or 0x01, added to
\* a not yet complete Unchunkifier, add appends the chunk, counts its
\* payload, and returns true when the flag byte is 0x00 and false when it
\* is 0x01.
C24_AddReturnsTrueIffTerminal ==
    [][\A array \in ChunkArrays : \A first \in BufferStarts(array) :
          (/\ AddChunk(array, first)
           /\ ~ unchunkifier.u.done
           /\ array # <<>>
           /\ array[1] \in {0, 1}) =>
              /\ unchunkifier'.u.chunks = Append(unchunkifier.u.chunks, array)
              /\ unchunkifier'.u.length = unchunkifier.u.length + Len(array) - 1
              /\ unchunkifier'.u.last.outcome = IF array[1] = 0 THEN "true" ELSE "false"
              /\ unchunkifier'.u.done = (array[1] = 0)
    ]_vars

(***************************************************************************)
(* Properties of the initiator towards several responders                  *)
(***************************************************************************)
\* engine s is an initiator whose peer handshake handler receives frames
InPeerHandshake(s) == s.role = "initiator" /\ s.handler = "peer" /\ Receiving(s)

\* frames addressed to s from responder addresses that are not in its map,
\* in every box and with every payload a responder may send
UnknownResponderFrames(s) ==
    { Frame(c, src, s.address, ZeroCsn, TRUE, b, m) :
        c \in Cookies,
        src \in ResponderIds \ DOMAIN s.responders,
        b \in {PlainBox, SecretBox(s.authToken), Box(PermanentKey("R"), s.permanentKey)},
        m \in PeerMessages(PermanentKey("R"), <<"R", 1>>) }

\* C25: on the initiator during the peer handshake a frame whose source is
\* a responder address that is not in the map of responders is dropped
\* without abort: nothing is sent, state, transport, handler, the map and
\* every responder in it stay as they were, so later frames are handled.
C25_UnknownResponderDropped ==
    \A e \in Engines :
        InPeerHandshake(sig[e]) =>
            \A f \in UnknownResponderFrames(sig[e]) :
                OnPeerHandshakeMessage(sig[e], f, sig[e].seed)
                    = [sig[e] EXCEPT !.outcome = "unknown-responder"]

\* the initiator dropped a frame of an unknown responder while the handshake
\* with responder 0x02 was under way, and still receives frames
C25_Witness ==
    /\ InPeerHandshake(sig["I"])
    /\ sig["I"].outcome = "unknown-responder"
    /\ sig["I"].state = "peer-handshake"
    /\ DOMAIN sig["I"].responders = {2}
    /\ sig["I"].responders[2].state = "token-received"

\* the new-responder frames of the server to s, for known ids and the next id
NewResponderFrames(s) == {f \in ServerFrames(s) : f.message.type = "new-responder"}

\* C26: on the initiator during the peer handshake a new-responder of the
\* server for an id that is not in the map inserts a responder in state
\* 'new' without keys of the peer and leaves the others alone; for an id in
\* the map it is ignored: state, stored keys, own key store and sequence
\* number of the responder, and the rest of the engine, stay as they were.
C26_NewResponderInsertsOrIgnores ==
    \A e \in Engines :
        InPeerHandshake(sig[e]) =>
            \A f \in NewResponderFrames(sig[e]) :
                LET s  == sig[e]
                    t  == OnPeerHandshakeMessage(s, f, s.seed)
                    id == f.message.id
                IN  IF id \in DOMAIN s.responders
                    THEN t = [s EXCEPT !.outcome = "none"]
                    ELSE /\ DOMAIN t.responders = DOMAIN s.responders \cup {id}
                         /\ t.responders[id].id = id
                         /\ t.responders[id].state = "new"
                         /\ t.responders[id].permanentKey = NoKey
                         /\ t.responders[id].sessionKey = NoKey
                         /\ \A i \in DOMAIN s.responders : t.responders[i] = s.responders[i]
                         /\ t.state = s.state /\ t.sent = s.sent

\* responder 0x03 was inserted by a new-responder while the handshake with
\* responder 0x02 had stored its keys, and the initiator still receives, so
\* that a further new-responder for 0x02 or 0x03 meets a known id
C26_Witness ==
    /\ InPeerHandshake(sig["I"])
    /\ DOMAIN sig["I"].responders = {2, 3}
    /\ sig["I"].responders[2].state = "key-received"
    /\ sig["I"].responders[3].state = "new"
    /\ \E i \in DOMAIN sig["I"].heard[SALTYRTC_ADDR_SERVER] :
           /\ sig["I"].heard[SALTYRTC_ADDR_SERVER][i].message.type = "new-responder"
           /\ sig["I"].heard[SALTYRTC_ADDR_SERVER][i].message.id = 3

\* the position of a handshake state of a responder in new ->
\* token-received -> key-received
Rank(state) ==
    IF state = "new" THEN 0 ELSE IF state = "token-received" THEN 1 ELSE 2

\* the step accepted a token or key frame of responder `src` on engine e
AcceptedFrom(e, src) ==
    /\ Len(sig'[e].heard[src]) = Len(sig[e].heard[src]) + 1
    /\ sig'[e].heard[src][Len(sig'[e].heard[src])].message.type \in {"token", "key"}

\* C27: the handshakes of several responders interleave on the initiator.
\* A step that accepts a token or key frame of responder src moves
\* responders[src] one state forward in new -> token-received ->
\* key-received and leaves the map's keys and every other responder (state,
\* keys, key store, sequence number) as they were; in no step does the
\* state of a responder that stays in the map move backwards.
C27_HandshakesInterleave ==
    [][\A e \in Engines :
          /\ \A i \in (DOMAIN sig[e].responders) \cap (DOMAIN sig'[e].responders) :
                 Rank(sig'[e].responders[i].state) >= Rank(sig[e].responders[i].state)
          /\ \A src \in ResponderIds :
                 AcceptedFrom(e, src) =>
                     /\ DOMAIN sig'[e].responders = DOMAIN sig[e].responders
                     /\ src \in DOMAIN sig[e].responders
                     /\ Rank(sig'[e].responders[src].state)
                            = Rank(sig[e].responders[src].state) + 1
                     /\ \A i \in (DOMAIN sig[e].responders) \ {src} :
                            sig'[e].responders[i] = sig[e].responders[i]]_vars

\* the initiator accepted token and key of responder 0x03 and, before or in
\* between, the token of responder 0x02, which has not sent its key yet
C27_Witness ==
    /\ InPeerHandshake(sig["I"])
    /\ DOMAIN sig["I"].responders = {2, 3}
    /\ sig["I"].responders[2].state = "token-received"
    /\ sig["I"].responders[3].state = "key-received"
    /\ Len(sig["I"].heard[2]) = 1
    /\ Len(sig["I"].heard[3]) = 2

\* C28: an engine in the initiator role never sends a frame to destination
\* 0x01; in particular a new-initiator of the server makes it send no token.
C28_InitiatorNeverSendsToInitiator ==
    \A e \in Engines :
        sig[e].role = "initiator" => sig[e].sent[SALTYRTC_ADDR_INITIATOR] = <<>>

(***************************************************************************)
(* Properties of the responder's address                                   *)
(***************************************************************************)
\* the nonce of f does not come from the server, or names no responder
BadServerAuthNonce(f) ==
    \/ f.source # SALTYRTC_ADDR_SERVER
    \/ f.destination < RESPONDER_ADDR_MIN
    \/ f.destination > RESPONDER_ADDR_MAX

\* s accepted a server-auth whose nonce destination is its address
AddressFromServerAuth(s) ==
    \E i \in DOMAIN s.heard[SALTYRTC_ADDR_SERVER] :
        /\ s.heard[SALTYRTC_ADDR_SERVER][i].message.type = "server-auth"
        /\ s.heard[SALTYRTC_ADDR_SERVER][i].destination = s.address

\* C29: a responder in state peer-handshake or open has the address that
\* was the nonce destination of the server-auth it accepted, in 0x02..0xff;
\* a server-auth whose nonce source is not 0x00 or whose destination is
\* outside 0x02..0xff is rejected, with bad-nonce-source or
\* bad-nonce-destination when the frame decrypts, and the responder does
\* not enter the peer handshake.
C29_ResponderAddress ==
    \A e \in Engines :
        sig[e].role = "responder" =>
            /\ sig[e].state \in {"peer-handshake", "open"} =>
                   /\ sig[e].address >= RESPONDER_ADDR_MIN
                   /\ sig[e].address <= RESPONDER_ADDR_MAX
                   /\ AddressFromServerAuth(sig[e])
            /\ (Receiving(sig[e]) /\ sig[e].handler = "recv") =>
                   \A f \in {g \in ServerAuthFrames(sig[e]) : BadServerAuthNonce(g)} :
                       LET t == OnServerAuth(sig[e], f, sig[e].seed)
                       IN  /\ t.state = sig[e].state
                           /\ t.handler # "peer"
                           /\ t.outcome # "none"
                           /\ (f.long /\ KeyStoreDecrypts(f.box, sig[e].permanentKey,
                                                          sig[e].serverKey)) =>
                                  t.outcome \in {"bad-nonce-source", "bad-nonce-destination"}

\* the responder entered the peer handshake on a server-auth for 0x03
C29_Witness ==
    /\ sig["R"].state = "peer-handshake"
    /\ sig["R"].address = 3
    /\ AddressFromServerAuth(sig["R"])

(***************************************************************************)
(* Properties of the nonces of sent frames                                 *)
(***************************************************************************)
\* the 24 bytes of the nonce of a frame: cookie, source, destination,
\* overflow and sequence number
NonceOf(f) == <<f.cookie, f.source, f.destination, f.csn>>

\* two boxes are made with the same secret key or the same pair of keys
SameKey(b, c) ==
    /\ b.kind = c.kind
    /\ \/ (b.a = c.a /\ b.b = c.b)
       \/ (b.a = c.b /\ b.b = c.a)

\* the places of the encrypted frames engine s has sent on its connection
EncryptedSent(s) ==
    {p \in UNION {{a} \X DOMAIN s.sent[a] : a \in Addresses} :
        s.sent[p[1]][p[2]].box.kind # "plain"}

\* C30: no two encrypted frames an engine has sent on a connection are
\* made with the same key (or pair of keys) and the same nonce; the key and
\* auth frames of the initiator to one responder do not share both.
C30_NoNonceReuse ==
    \A e \in Engines :
        \A p, q \in EncryptedSent(sig[e]) :
            LET f == sig[e].sent[p[1]][p[2]]
                g == sig[e].sent[q[1]][q[2]]
            IN  (p # q /\ SameKey(f.box, g.box)) => NonceOf(f) # NonceOf(g)

\* the initiator has sent key and auth to responder 0x02 with one sequence
\* number, in boxes of different keys
C30_Witness ==
    /\ Len(sig["I"].sent[2]) = 2
    /\ sig["I"].sent[2][1].message.type = "key"
    /\ sig["I"].sent[2][2].message.type = "auth"
    /\ NonceOf(sig["I"].sent[2][1]) = NonceOf(sig["I"].sent[2][2])
    /\ ~ SameKey(sig["I"].sent[2][1].box, sig["I"].sent[2][2].box)

(***************************************************************************)
(* Properties of a rejected chunk                                          *)
(***************************************************************************)
\* C34: an add() that fails with 'Invalid chunk received' leaves the
\* Unchunkifier as it was: the chunk is not appended and the length does
\* not grow, so a later merge() holds the payloads of accepted chunks only.
C34_RejectedChunkLeavesNoTrace ==
    [][\A array \in ChunkArrays : \A first \in BufferStarts(array) :
          (/\ AddChunk(array, first)
           /\ unchunkifier'.u.last.outcome = "Error: Invalid chunk received") =>
              SameContent(unchunkifier.u, unchunkifier'.u)
    ]_vars

(***************************************************************************)
(* Order of the two ends of a handshake through the relay                  *)
(***************************************************************************)
\* a frame of the given type is in a log of frames
HasType(frames, type) == \E i \in DOMAIN frames : frames[i].message.type = type

\* C33: through a relay that only forwards, the elected responder opens
\* first: whenever the initiator is open with chosen responder r, r has
\* accepted the auth of the initiator, sent its own auth to 0x01 and
\* entered state open with sub-state auth-received on that connection.
C33_ResponderOpensFirst ==
    sig["I"].state = "open" =>
        /\ sig["I"].responder.id = RelayAddress("R")
        /\ sig["R"].address = sig["I"].responder.id
        /\ HasType(sig["R"].heard[SALTYRTC_ADDR_INITIATOR], "auth")
        /\ HasType(sig["R"].sent[SALTYRTC_ADDR_INITIATOR], "auth")
        /\ sig["R"].initiatorHandshakeState = "auth-received"
        /\ sig["R"].state = "open"
        /\ "connected" \in sig["R"].notified

\* the initiator is open after it accepted the auth of responder 0x02
C33_Witness ==
    /\ sig["I"].state = "open"
    /\ sig["I"].responder.id = RelayAddress("R")
    /\ HasType(sig["I"].heard[RelayAddress("R")], "auth")
    /\ sig["R"].state = "open"

(***************************************************************************)
(* Properties of an engine that connects again                             *)
(***************************************************************************)
\* the engine has no WebSocket, or its current WebSocket has closed
TransportClosed(s) == s.ws = 0 \/ s.socks[s.ws] = "closed"

\* C31: events of a WebSocket that a reset closed do not reach a later
\* connection: the engine is in state closed, or has reported a closed
\* connection since the last connect(), only when its current WebSocket, if
\* it has one, has closed.
C31_LateCloseIgnored ==
    \A e \in Engines :
        /\ sig[e].state = "closed" => TransportClosed(sig[e])
        /\ "closed" \in sig[e].notified => TransportClosed(sig[e])

\* the server-hello of a server to a client that has no address yet
FirstServerHello ==
    Frame("c1", SALTYRTC_ADDR_SERVER, SALTYRTC_ADDR_UNKNOWN, ZeroCsn, TRUE, PlainBox,
          ServerHelloMessage)

\* C32: a reset returns the engine to its first condition, so that every
\* connect() runs the same handshake: on each connection the handler of the
\* first message accepts a server-hello addressed to the unknown address
\* 0x00, sends client-auth and waits for server-auth.
C32_ReconnectAcceptsServerHello ==
    \A e \in Engines :
        (Receiving(sig[e]) /\ sig[e].handler = "init") =>
            \A cookie \in FreshCookies(FirstServerHello.cookie) :
                LET t == OnInitServerHandshake(sig[e], FirstServerHello, cookie)
                IN  /\ t.outcome = "none"
                    /\ t.handler = "recv"
                    /\ HasType(t.sent[SALTYRTC_ADDR_SERVER], "client-auth")

=============================================================================
